---- MODULE Spec2Model ----
(***************************************************************************)
(* Model of slack-timeline-retro: the three summary use cases              *)
(* (GenerateWeeklySummary, GenerateMonthlySummary, GenerateYearlySummary)  *)
(* running against the Slack repository (a thread of posted messages,      *)
(* decoded by SlackMessageParser) and the AI service.                      *)
(*                                                                         *)
(* Time.  A calendar day is its number of days since Monday 2018-01-01.    *)
(* An instant is 3*day + slot: slot 0 is 00:00:00.000 of the day, slot 2   *)
(* is 23:59:59.999 of the day, slot 1 is any time in between.  The code    *)
(* only builds instants of slot 0 and 2; user posts carry slot 1.          *)
(***************************************************************************)
EXTENDS Integers, Sequences, FiniteSets, TLC

(***************************************************************************)
(* Bounds of the model                                                     *)
(***************************************************************************)
MaxPosts == 2        \* most user posts in the workspace
MaxThread == 2       \* most messages in the thread before the invocation

(***************************************************************************)
(* Calendar: JavaScript Date and date-fns, at day granularity              *)
(***************************************************************************)
YearRange == 2018..2040

IsLeap(y) == (y % 4 = 0 /\ y % 100 # 0) \/ y % 400 = 0

DaysInYear(y) == IF IsLeap(y) THEN 366 ELSE 365

DaysInMonth(y, m) ==
  IF m = 2 THEN (IF IsLeap(y) THEN 29 ELSE 28)
  ELSE IF m \in {4, 6, 9, 11} THEN 30 ELSE 31

\* number of leap years before year y
LeapsBefore(y) == ((y - 1) \div 4) - ((y - 1) \div 100) + ((y - 1) \div 400)

\* day number of January 1st of year y
YearStart[y \in 2018..2041] ==
  365 * (y - 2018) + LeapsBefore(y) - LeapsBefore(2018)

\* days of year y before the first day of month m (m in 1..13)
MonthOffset(y, m) ==
  <<0, 31, 59, 90, 120, 151, 181, 212, 243, 273, 304, 334, 365>>[m]
    + (IF m > 2 /\ IsLeap(y) THEN 1 ELSE 0)

StartOfDay(d) == 3 * d
MidDay(d) == 3 * d + 1
EndOfDay(d) == 3 * d + 2
DayOf(t) == t \div 3

\* new Date(year, monthIndex, day): local midnight; a monthIndex above 11
\* rolls into the next year and day 0 is the last day of the month before
NewDate(year, monthIndex, day) ==
  LET y == year + (monthIndex \div 12)
      m == (monthIndex % 12) + 1
  IN  StartOfDay(YearStart[y] + MonthOffset(y, m) + day - 1)

\* a year has 365 or 366 days, which leaves two candidates for the year of a day
getFullYear(t) ==
  CHOOSE y \in (2018 + (DayOf(t) \div 366))..(2018 + (DayOf(t) \div 365)) :
    YearStart[y] <= DayOf(t) /\ DayOf(t) < YearStart[y + 1]

\* Date.getMonth() + 1
getMonth1(t) ==
  LET y == getFullYear(t)
      n == DayOf(t) - YearStart[y]
  IN  CHOOSE m \in 1..12 : MonthOffset(y, m) <= n /\ n < MonthOffset(y, m + 1)

getDate(t) ==
  LET y == getFullYear(t)
  IN  DayOf(t) - YearStart[y] - MonthOffset(y, getMonth1(t)) + 1

\* day of week with Monday = 0 ... Sunday = 6
WeekdayMon(t) == DayOf(t) % 7

\* date-fns startOfWeek / endOfWeek with { weekStartsOn: 1 }
startOfWeek(t) == StartOfDay(DayOf(t) - WeekdayMon(t))
endOfWeek(t) == EndOfDay(DayOf(t) - WeekdayMon(t) + 6)
addWeeks(t, n) == t + 21 * n

startOfMonth(t) == NewDate(getFullYear(t), getMonth1(t) - 1, 1)
endOfMonth(t) ==
  EndOfDay(DayOf(startOfMonth(t)) + DaysInMonth(getFullYear(t), getMonth1(t)) - 1)
startOfYear(t) == NewDate(getFullYear(t), 0, 1)
endOfYear(t) == EndOfDay(YearStart[getFullYear(t) + 1] - 1)

\* date-fns getWeekYear with weekStartsOn 1 and firstWeekContainsDate 1
getWeekYear(t) ==
  LET year == getFullYear(t)
      startOfNextYear == startOfWeek(NewDate(year + 1, 0, 1))
      startOfThisYear == startOfWeek(NewDate(year, 0, 1))
  IN  IF t >= startOfNextYear THEN year + 1
      ELSE IF t >= startOfThisYear THEN year
      ELSE year - 1

\* date-fns getWeek(date, { weekStartsOn: 1 })
getWeek(t) ==
  LET startOfWeekYear == startOfWeek(NewDate(getWeekYear(t), 0, 1))
  IN  ((DayOf(startOfWeek(t)) - DayOf(startOfWeekYear)) \div 7) + 1

(***************************************************************************)
(* DateRange                                                               *)
(***************************************************************************)
DateRange(s, e) == [start |-> s, end |-> e]

forWeek(t) == DateRange(startOfWeek(t), endOfWeek(t))
forMonth(t) == DateRange(startOfMonth(t), endOfMonth(t))
forYear(year) == DateRange(startOfYear(NewDate(year, 0, 1)), endOfYear(NewDate(year, 0, 1)))

contains(r, t) == r.start <= t /\ t <= r.end

\* variant: a range counts only when it lies within the other
overlaps_within(r, other) == r.start >= other.start /\ r.end <= other.end

overlaps(r, other) == ~(r.start > other.end \/ r.end < other.start)

\* a calendar date as it is written in a message: <<year, month, day>>
NoDate == <<0, 0, 0>>

\* date-fns format(t, 'yyyy/MM/dd')
formatDate(t) == <<getFullYear(t), getMonth1(t), getDate(t)>>

\* DateRange.format('yyyy/MM/dd'): both instants are cut to their calendar day
format(r) == [startDate |-> formatDate(r.start), endDate |-> formatDate(r.end)]

(***************************************************************************)
(* Summary                                                                 *)
(* id 0 is the null id, month 0 / weekNumber 0 are "undefined"             *)
(***************************************************************************)
WEEKLY == "weekly"
MONTHLY == "monthly"
YEARLY == "yearly"
SummaryTypes == {WEEKLY, MONTHLY, YEARLY}

createWeekly(id, content, dateRange, year, weekNumber) ==
  [id |-> id, type |-> WEEKLY, content |-> content, dateRange |-> dateRange,
   year |-> year, month |-> 0, weekNumber |-> weekNumber]

\* variant: a monthly summary also carries the week number of its first day
createMonthly_withWeek(id, content, dateRange, year, month) ==
  [id |-> id, type |-> MONTHLY, content |-> content, dateRange |-> dateRange,
   year |-> year, month |-> month, weekNumber |-> getWeek(dateRange.start)]

createMonthly(id, content, dateRange, year, month) ==
  [id |-> id, type |-> MONTHLY, content |-> content, dateRange |-> dateRange,
   year |-> year, month |-> month, weekNumber |-> 0]

createYearly(id, content, dateRange, year) ==
  [id |-> id, type |-> YEARLY, content |-> content, dateRange |-> dateRange,
   year |-> year, month |-> 0, weekNumber |-> 0]

fromSlackMessage(id, type, content, dateRange, year, month, weekNumber) ==
  [id |-> id, type |-> type, content |-> content, dateRange |-> dateRange,
   year |-> year, month |-> month, weekNumber |-> weekNumber]

\* variant: only a summary whose period starts in the month belongs to it
overlapsWithMonth_startsInMonth(summary, year, month) ==
  contains(forMonth(NewDate(year, month - 1, 1)), summary.dateRange.start)

overlapsWithMonth(summary, year, month) ==
  overlaps(summary.dateRange, forMonth(NewDate(year, month - 1, 1)))

\* the value slot of a failed Result
NoSummary ==
  [id |-> 0, type |-> "none", content |-> <<>>, dateRange |-> DateRange(0, 0),
   year |-> 0, month |-> 0, weekNumber |-> 0]

(***************************************************************************)
(* Message text.  A text is the sequence of its lines (text.split('\n')).  *)
(* A line is kept as the parts the decoder looks at:                       *)
(*   tagType/tagYear    a "[WeeklySummary_2025]" tag in the line           *)
(*                      ("none": the line holds no tag)                    *)
(*   label              a period label in the line ("": none)              *)
(*   startDate/endDate  the two yyyy/MM/dd dates that follow the label     *)
(*   lead, body, trail  other text of the line, and the number of blanks   *)
(*                      before and after it                                *)
(* A content string is likewise the sequence of its lines; the empty       *)
(* string is one empty line.                                               *)
(***************************************************************************)
Line(tagType, tagYear, label, startDate, endDate, lead, body, trail) ==
  [tagType |-> tagType, tagYear |-> tagYear, label |-> label,
   startDate |-> startDate, endDate |-> endDate,
   lead |-> lead, body |-> body, trail |-> trail]

TextLine(body) == Line("none", 0, "", NoDate, NoDate, 0, body, 0)
EmptyLine == TextLine("")
EmptyString == <<EmptyLine>>

\* line.trim() === ''
IsBlank(line) == line.tagType = "none" /\ line.label = "" /\ line.body = ""

PeriodLabelEn == "CALENDAR Period:"
PeriodLabelJa == "CALENDAR Kikan:"

\* getLocaleStrings(locale).periodLabel
localePeriodLabel(locale) == IF locale = "ja_JP" THEN PeriodLabelJa ELSE PeriodLabelEn

\* labels the period regular expression of the parser accepts
KnownLabels ==
  {"CALENDAR Period:", "CALENDAR Kikan:", ":date: Period:", ":date: Kikan:",
   ":calendar: Period:", ":calendar: Kikan:", ":hizuke: Period:", ":hizuke: Kikan:"}

\* labels whose lines extractContent leaves out
HeaderLabels ==
  {"CALENDAR Period:", "CALENDAR Kikan:", ":hizuke: Kikan:",
   ":calendar: Period:", ":calendar: Kikan:", ":date: Period:", ":date: Kikan:"}

getSummaryTag(type, year) == Line(type, year, "", NoDate, NoDate, 0, "", 0)

\* `${tag}\n${periodLabel} ${period}\n\n${content}`
toSlackMessage(summary, label) ==
  LET tag == getSummaryTag(summary.type, summary.year)
      period == format(summary.dateRange)
  IN  <<tag, Line("none", 0, label, period.startDate, period.endDate, 0, "", 0),
        EmptyLine>> \o summary.content

\* message.includes('[WeeklySummary_') and so on, weekly first
parseSummaryType(text) ==
  IF \E i \in DOMAIN text : text[i].tagType = WEEKLY THEN WEEKLY
  ELSE IF \E i \in DOMAIN text : text[i].tagType = MONTHLY THEN MONTHLY
  ELSE IF \E i \in DOMAIN text : text[i].tagType = YEARLY THEN YEARLY
  ELSE "none"

\* msg.text.includes(`_${year}]`)
includesYear(text, year) ==
  \E i \in DOMAIN text : text[i].tagType # "none" /\ text[i].tagYear = year

\* SlackMessageParser.parseDate: null (NoDate here) when a component is 0
parseDate(date) ==
  IF date[1] = 0 \/ date[2] = 0 \/ date[3] = 0 THEN NoDate ELSE date

\* SlackMessageParser.extractWeekNumber: ISO week number of the date
extractWeekNumber(t) ==
  LET thursday == DayOf(t) - WeekdayMon(t) + 3
      jan1 == YearStart[getFullYear(StartOfDay(thursday))]
      \* first Thursday of the year of that Thursday
      firstThu == jan1 + ((3 - (jan1 % 7) + 7) % 7)
  IN  1 + ((thursday - firstThu + 6) \div 7)

\* String.prototype.trim on a content: blank lines and blanks at both ends go
RECURSIVE dropLeadingBlank(_)
dropLeadingBlank(lines) ==
  IF lines # <<>> /\ IsBlank(Head(lines)) THEN dropLeadingBlank(Tail(lines)) ELSE lines

RECURSIVE dropTrailingBlank(_)
dropTrailingBlank(lines) ==
  IF lines # <<>> /\ IsBlank(lines[Len(lines)])
  THEN dropTrailingBlank(SubSeq(lines, 1, Len(lines) - 1))
  ELSE lines

trim(lines) ==
  LET inner == dropTrailingBlank(dropLeadingBlank(lines))
  IN  IF inner = <<>> THEN EmptyString
      ELSE [i \in 1..Len(inner) |->
              [inner[i] EXCEPT !.lead = IF i = 1 THEN 0 ELSE @,
                               !.trail = IF i = Len(inner) THEN 0 ELSE @]]

\* the loop of extractContent: header lines are left out, and so are blank
\* lines before the first line that is kept
RECURSIVE contentLines(_, _)
contentLines(lines, startContent) ==
  IF lines = <<>> THEN <<>>
  ELSE LET line == Head(lines)
       IN  IF line.tagType # "none" \/ line.label \in HeaderLabels
           THEN contentLines(Tail(lines), startContent)
           ELSE IF IsBlank(line) /\ ~startContent
           THEN contentLines(Tail(lines), startContent)
           ELSE <<line>> \o contentLines(Tail(lines), TRUE)

\* SlackMessageParser.extractContent
extractContent(text) == trim(contentLines(text, FALSE))

\* SlackMessageParser.parseSummaryMessage; the result is
\*   [kind |-> "null"], [kind |-> "throw"] or [kind |-> "summary", summary |-> s]
parseSummaryMessage(text, messageId, expectedYear) ==
  LET type == parseSummaryType(text)
      matches == { i \in DOMAIN text : text[i].label \in KnownLabels }
      null == [kind |-> "null", summary |-> NoSummary]
  IN  IF type = "none" THEN null
      ELSE IF matches = {} THEN null
      ELSE LET periodMatch == text[CHOOSE i \in matches : \A j \in matches : i <= j]
               start == parseDate(periodMatch.startDate)
               end == parseDate(periodMatch.endDate)
           IN  IF start = NoDate \/ end = NoDate THEN null
               ELSE LET startDate == NewDate(start[1], start[2] - 1, start[3])
                        endDate == NewDate(end[1], end[2] - 1, end[3])
                    IN  IF startDate > endDate
                        THEN [kind |-> "throw", summary |-> NoSummary]   \* DateRange.create throws
                        ELSE [kind |-> "summary",
                              summary |->
                                fromSlackMessage(messageId, type, extractContent(text),
                                                 DateRange(startDate, endDate), expectedYear,
                                                 IF type = MONTHLY THEN getMonth1(startDate) ELSE 0,
                                                 IF type = WEEKLY THEN extractWeekNumber(startDate) ELSE 0)]

(***************************************************************************)
(* State                                                                   *)
(***************************************************************************)
VARIABLES
  thread,      \* the messages of the channel, oldest first; the replies
               \* among them are the messages of the Slack thread
  userPosts,   \* the user's posts in the workspace
  env,         \* the deployment: locale of the gateway, reply of the backend
  pc,          \* position of the running invocation ("idle", "done" or an await)
  params,      \* parameters of the invocation
  loc,         \* local variables of the invocation
  result,      \* Result returned by execute
  calls,       \* the gateway and backend calls of the invocation, in order
  thread0,     \* the thread as it was when the invocation started
  web,         \* the HTTP route: the request, its response, the background task
  tok          \* the token store and the repository calls running on it

vars == <<thread, userPosts, env, web, tok, pc, params, loc, result, calls, thread0>>

\* no request has been received; the token collection is not in use
NoWeb ==
  [route |-> "idle", timestamp |-> 0,
   signature |-> [secret |-> "", timestamp |-> 0, body |-> ""], body |-> "",
   status |-> 0, response |-> "none", getTokenCalls |-> 0, bg |-> "none",
   dm |-> <<>>, postFailed |-> FALSE, handleThrew |-> FALSE]

\* a document of the token collection that does not exist
NoDoc == [exists |-> FALSE, id |-> 0, expiresAt |-> 0]

NoTok == [doc |-> NoDoc, now |-> 0, procs |-> <<>>, returned |-> <<>>, lastSaved |-> NoDoc]

\* getLocaleStrings(this.locale).periodLabel of the gateway
periodLabel == localePeriodLabel(env.locale)

(***************************************************************************)
(* The workspace: posts the user may have written, and messages the        *)
(* thread may hold before the invocation                                   *)
(***************************************************************************)
Post(id, t) == [id |-> id, timestamp |-> t]

CandidatePosts ==
  { Post(1, MidDay(DayOf(NewDate(2024, 11, 31)))),   \* Tue, week Dec 30 - Jan 5
    Post(2, MidDay(DayOf(NewDate(2025, 0, 8)))),     \* Wed, week Jan 6 - Jan 12
    Post(3, MidDay(DayOf(NewDate(2025, 0, 9)))),     \* Thu, same week
    Post(4, MidDay(DayOf(NewDate(2025, 5, 1)))),     \* Sun, week May 26 - Jun 1
    Post(5, MidDay(DayOf(NewDate(2025, 5, 30)))),    \* Mon, week Jun 30 - Jul 6
    Post(6, MidDay(DayOf(NewDate(2025, 11, 30)))) }  \* Tue, week Dec 29 - Jan 4

\* a summary message as the gateway posts it
Text(tagType, tagYear, label, startT, endT, content) ==
  <<getSummaryTag(tagType, tagYear),
    Line("none", 0, label, formatDate(startT), formatDate(endT), 0, "", 0),
    EmptyLine, TextLine(content)>>

CandidateTexts ==
  { Text(WEEKLY, 2025, PeriodLabelEn, NewDate(2024, 11, 30), NewDate(2025, 0, 5), "old week 1"),
    Text(WEEKLY, 2025, PeriodLabelEn, NewDate(2025, 2, 3), NewDate(2025, 2, 9), "old week 10"),
    Text(MONTHLY, 2025, PeriodLabelEn, NewDate(2025, 2, 1), NewDate(2025, 2, 31), "old march"),
    <<TextLine("chatter")>> }

\* a message of the channel: Slack gives it the timestamp ts, its id; reply
\* tells whether it was posted with the thread_ts of the thread
Message(ts, text, broadcast, reply) ==
  [ts |-> ts, text |-> text, broadcast |-> broadcast, reply |-> reply]

\* the thread holds up to MaxThread of the candidate texts, in any order
InitialThreads ==
  UNION { { [i \in 1..n |-> Message(i, f[i], FALSE, TRUE)] :
              f \in { g \in [1..n -> CandidateTexts] :
                        \A i, j \in 1..n : i # j => g[i] # g[j] } }
          : n \in 0..MaxThread }

Years == {2025}
Months == {1, 6, 12}
TargetDates ==
  { NewDate(2025, 0, 1), NewDate(2025, 0, 8), NewDate(2025, 1, 12) }

NoLoc ==
  [week |-> 0, month |-> 0, hasAnyPosts |-> FALSE, weeksWithPosts |-> 0,
   posts |-> <<>>, content |-> <<>>, allWeekly |-> <<>>, relevant |-> <<>>,
   sorted |-> <<>>]

NoParams == [kind |-> "none", year |-> 0, month |-> 0, targetDate |-> 0, threadTs |-> FALSE]

\* the channels an invocation is given: channel.threadTs is set or undefined
Channel(threadTs) == [threadTs |-> threadTs]
ThreadChannel == Channel(TRUE)

\* locale en_US, and a backend that replies with plain text
DefaultEnv == [locale |-> "en_US", ai |-> "plain"]

Pending == [ok |-> FALSE, error |-> "pending", value |-> NoSummary]
ok(value) == [ok |-> TRUE, error |-> "", value |-> value]
err(error) == [ok |-> FALSE, error |-> error, value |-> NoSummary]

Init ==
  /\ web = NoWeb
  /\ tok = NoTok
  /\ thread \in InitialThreads
  /\ userPosts \in { P \in SUBSET CandidatePosts : Cardinality(P) <= MaxPosts }
  /\ env = DefaultEnv
  /\ pc = "idle"
  /\ params = NoParams
  /\ loc = NoLoc
  /\ result = Pending
  /\ calls = <<>>
  /\ thread0 = thread

(***************************************************************************)
(* Gateway (SlackRepository) and backend (AIService)                       *)
(***************************************************************************)
RECURSIVE SortByTimestamp(_)
SortByTimestamp(P) ==
  IF P = {} THEN <<>>
  ELSE LET first == CHOOSE p \in P : \A q \in P : p.timestamp <= q.timestamp
       IN  <<first>> \o SortByTimestamp(P \ {first})

\* ISlackRepository.fetchUserPosts: the user's posts within the range, oldest first
fetchUserPosts(dateRange) ==
  SortByTimestamp({ p \in userPosts : contains(dateRange, p.timestamp) })

\* messages fetchSummariesFromThread hands to the parser: the replies of the
\* thread (conversations.replies) that pass the type and the year check
Matching(messages, type, year) ==
  LET keep(msg) ==
        msg.reply /\ parseSummaryType(msg.text) = type /\ includesYear(msg.text, year)
  IN  SelectSeq(messages, keep)

\* fetchSummariesFromThread throws when the parser throws on a matching message
fetchThrows(messages, type, year) ==
  LET m == Matching(messages, type, year)
  IN  \E i \in 1..Len(m) : parseSummaryMessage(m[i].text, m[i].ts, year).kind = "throw"

fetchSummariesFromThread(messages, type, year) ==
  LET m == Matching(messages, type, year)
      parsed == [i \in 1..Len(m) |-> parseSummaryMessage(m[i].text, m[i].ts, year)]
      keep(p) == p.kind = "summary"
      kept == SelectSeq(parsed, keep)
  IN  [i \in 1..Len(kept) |-> kept[i].summary]

\* chat.postMessage: Slack appends the message and returns its timestamp
nextTs == Len(thread) + 1

\* chat.postMessage with thread_ts: channel.threadTs; without a thread_ts
\* Slack posts the message to the channel itself
postSummaryToThread(summary) ==
  Append(thread, Message(nextTs, toSlackMessage(summary, periodLabel), FALSE,
                         params.threadTs))

broadcastSummary(summary) ==
  Append(thread, Message(nextTs, toSlackMessage(summary, periodLabel), TRUE, TRUE))

\* the guard of fetchSummariesFromThread and broadcastSummary:
\* if (!channel.threadTs) throw new SlackAPIError(...)
missingThreadTs == ~params.threadTs

\* the text the backend generates; it is opaque to the use cases
generatedContent(type) ==
  IF env.ai = "empty" THEN EmptyString
  ELSE IF env.ai = "padded"
  THEN <<EmptyLine, Line("none", 0, "", NoDate, NoDate, 2, "padded text", 1), EmptyLine>>
  ELSE IF env.ai = "tagged"
  THEN <<TextLine("see"), Line(WEEKLY, 2025, "", NoDate, NoDate, 0, "", 0),
         Line("none", 0, PeriodLabelEn, <<2025, 1, 6>>, <<2025, 1, 12>>, 0, "", 0),
         TextLine("end")>>
  ELSE IF type = WEEKLY THEN <<TextLine("weekly text")>>
  ELSE IF type = MONTHLY THEN <<TextLine("monthly text")>>
  ELSE <<TextLine("yearly text")>>

\* one entry of the call log: the function, its argument, what it returned
\* (0 when it threw) and the error it threw ("" when it returned)
Call(fn, arg, ret, err0) ==
  [fn |-> fn, arg |-> arg, ret |-> IF err0 = "" THEN ret ELSE 0,
   ok |-> err0 = "", error |-> err0]

\* errors a failing call throws
SlackErrors == {"SlackAPIError"}
AIErrors == {"AIServiceError"}

\* leave the invocation through the catch block (or an early return)
Fail(error) ==
  /\ pc' = "done"
  /\ result' = err(error)

(***************************************************************************)
(* GenerateWeeklySummary.execute                                           *)
(***************************************************************************)
StartWeekly(targetDate, year, channel) ==
  /\ pc = "idle"
  /\ params' = [kind |-> WEEKLY, year |-> year, month |-> 0, targetDate |-> targetDate,
                threadTs |-> channel.threadTs]
  /\ pc' = "W_fetchUserPosts"
  /\ thread0' = thread
  /\ UNCHANGED <<thread, userPosts, env, web, tok, loc, result, calls>>

\* variant: the empty-list check after the fetch is missing
WeeklyFetchUserPosts_noEmptyCheck(e) ==
  /\ pc = "W_fetchUserPosts"
  /\ LET dateRange == forWeek(params.targetDate)
         posts == fetchUserPosts(dateRange)
     IN  /\ calls' = Append(calls, Call("fetchUserPosts", dateRange, posts, e))
         /\ IF e # "" THEN Fail(e) /\ UNCHANGED loc
            ELSE /\ loc' = [loc EXCEPT !.posts = posts]
                 /\ pc' = "W_generateWeeklySummary"
                 /\ UNCHANGED result
  /\ UNCHANGED <<thread, userPosts, env, web, tok, params, thread0>>

WeeklyFetchUserPosts(e) ==
  /\ pc = "W_fetchUserPosts"
  /\ LET dateRange == forWeek(params.targetDate)
         posts == fetchUserPosts(dateRange)
     IN  /\ calls' = Append(calls, Call("fetchUserPosts", dateRange, posts, e))
         /\ IF e # "" THEN Fail(e) /\ UNCHANGED loc
            ELSE IF Len(posts) = 0 THEN Fail("PostsNotFoundError") /\ UNCHANGED loc
            ELSE /\ loc' = [loc EXCEPT !.posts = posts]
                 /\ pc' = "W_generateWeeklySummary"
                 /\ UNCHANGED result
  /\ UNCHANGED <<thread, userPosts, env, web, tok, params, thread0>>

WeeklyGenerate(e) ==
  /\ pc = "W_generateWeeklySummary"
  /\ calls' = Append(calls, Call("generateWeeklySummary", loc.posts, generatedContent(WEEKLY), e))
  /\ IF e # "" THEN Fail(e) /\ UNCHANGED loc
     ELSE /\ loc' = [loc EXCEPT !.content = generatedContent(WEEKLY)]
          /\ pc' = "W_postSummaryToThread"
          /\ UNCHANGED result
  /\ UNCHANGED <<thread, userPosts, env, web, tok, params, thread0>>

\* variant: execute returns the summary it posted, which has no id
WeeklyPost_returnsUnposted(e) ==
  /\ pc = "W_postSummaryToThread"
  /\ LET dateRange == forWeek(params.targetDate)
         weekNumber == getWeek(params.targetDate)
         summary == createWeekly(0, loc.content, dateRange, params.year, weekNumber)
     IN  /\ calls' = Append(calls, Call("postSummaryToThread", summary, nextTs, e))
         /\ IF e # "" THEN Fail(e) /\ UNCHANGED thread
            ELSE /\ thread' = postSummaryToThread(summary)
                 /\ result' = ok(summary)
                 /\ pc' = "done"
  /\ UNCHANGED <<userPosts, env, web, tok, params, loc, thread0>>

\* variant: a summary of the same week found in the thread is not posted again
WeeklyPost_skipsExisting(e) ==
  /\ pc = "W_postSummaryToThread"
  /\ LET dateRange == forWeek(params.targetDate)
         weekNumber == getWeek(params.targetDate)
         summary == createWeekly(0, loc.content, dateRange, params.year, weekNumber)
         existing == { k \in DOMAIN thread :
                         thread[k].text = toSlackMessage(summary, periodLabel) }
     IN  IF e = "" /\ existing # {}
         THEN /\ result' = ok(createWeekly(thread[CHOOSE k \in existing : TRUE].ts,
                                           loc.content, dateRange, params.year, weekNumber))
              /\ pc' = "done"
              /\ UNCHANGED <<thread, calls>>
         ELSE /\ calls' = Append(calls, Call("postSummaryToThread", summary, nextTs, e))
              /\ IF e # "" THEN Fail(e) /\ UNCHANGED thread
                 ELSE /\ thread' = postSummaryToThread(summary)
                      /\ result' = ok(createWeekly(nextTs, loc.content, dateRange,
                                                   params.year, weekNumber))
                      /\ pc' = "done"
  /\ UNCHANGED <<userPosts, env, web, tok, params, loc, thread0>>

WeeklyPost(e) ==
  /\ pc = "W_postSummaryToThread"
  /\ LET dateRange == forWeek(params.targetDate)
         weekNumber == getWeek(params.targetDate)
         summary == createWeekly(0, loc.content, dateRange, params.year, weekNumber)
     IN  /\ calls' = Append(calls, Call("postSummaryToThread", summary, nextTs, e))
         /\ IF e # "" THEN Fail(e) /\ UNCHANGED thread
            ELSE /\ thread' = postSummaryToThread(summary)
                 /\ result' = ok(createWeekly(nextTs, loc.content, dateRange,
                                              params.year, weekNumber))
                 /\ pc' = "done"
  /\ UNCHANGED <<userPosts, env, web, tok, params, loc, thread0>>

(***************************************************************************)
(* GenerateMonthlySummary.execute                                          *)
(***************************************************************************)
RECURSIVE WeeksFrom(_, _)
\* the while loop of getWeeksInMonth
WeeksFrom(currentWeekStart, monthEnd) ==
  IF currentWeekStart <= monthEnd
  THEN <<currentWeekStart>> \o WeeksFrom(addWeeks(currentWeekStart, 1), monthEnd)
  ELSE <<>>

\* variant: the walk starts at the first Monday inside the month
getWeeksInMonth_fromFirstMonday(year, month) ==
  LET monthStart == NewDate(year, month - 1, 1)
      monthEnd == NewDate(year, month, 0)
      firstMonday == IF WeekdayMon(monthStart) = 0 THEN monthStart
                     ELSE addWeeks(startOfWeek(monthStart), 1)
  IN  WeeksFrom(firstMonday, monthEnd)

\* variant: the weeks of the month are walked from the last to the first
getWeeksInMonth_reversed(year, month) ==
  LET monthStart == NewDate(year, month - 1, 1)
      monthEnd == NewDate(year, month, 0)
      weeks == WeeksFrom(startOfWeek(monthStart), monthEnd)
  IN  [i \in 1..Len(weeks) |-> weeks[Len(weeks) + 1 - i]]

getWeeksInMonth(year, month) ==
  LET monthStart == NewDate(year, month - 1, 1)
      monthEnd == NewDate(year, month, 0)
  IN  WeeksFrom(startOfWeek(monthStart), monthEnd)

\* the weekly summaries of the list that overlap the month, in list order
relevantSummaries(allWeeklySummaries, year, month) ==
  LET keep(summary) == overlapsWithMonth(summary, year, month)
  IN  SelectSeq(allWeeklySummaries, keep)

\* Number.parseInt of a month argument that is not a number
NaN == 99

\* variant: only the upper end of the range is checked
handleMonthlyRejects_upperOnly(month) == month # NaN /\ month > 12

\* SlashCommandHandler.handleMonthly: if (month < 1 || month > 12) return failure;
\* both comparisons are false for NaN
handleMonthlyRejects(month) == month # NaN /\ (month < 1 \/ month > 12)

\* handleMonthly and the head of GenerateMonthlySummary.execute
StartMonthly(year, month, channel) ==
  /\ pc = "idle"
  /\ params' = [kind |-> MONTHLY, year |-> year, month |-> month, targetDate |-> 0,
                threadTs |-> channel.threadTs]
  /\ thread0' = thread
  /\ IF handleMonthlyRejects(month)
     THEN Fail("Month must be between 1 and 12") /\ UNCHANGED loc
     ELSE IF month = NaN              \* DateRange.forMonth(Invalid Date) throws
     THEN Fail("InvalidDateRangeError") /\ UNCHANGED loc
     ELSE /\ loc' = [loc EXCEPT !.week = 1, !.hasAnyPosts = FALSE]
          /\ pc' = "M_fetchUserPosts"
          /\ UNCHANGED result
  /\ UNCHANGED <<thread, userPosts, env, web, tok, calls>>

\* control after the body of the week loop for weeks[i - 1]: the next week,
\* or the code after the loop
\* variant: the hasAnyPosts check after the loop is missing
MonthlyContinue_noCheck(i, hasAnyPosts) ==
  /\ pc' = IF i <= Len(getWeeksInMonth(params.year, params.month))
           THEN "M_fetchUserPosts" ELSE "M_fetchSummariesFromThread"
  /\ UNCHANGED result

MonthlyContinue(i, hasAnyPosts) ==
  IF i <= Len(getWeeksInMonth(params.year, params.month))
  THEN /\ pc' = "M_fetchUserPosts"
       /\ UNCHANGED result
  ELSE IF ~hasAnyPosts
  THEN Fail("PostsNotFoundError")
  ELSE /\ pc' = "M_fetchSummariesFromThread"
       /\ UNCHANGED result

\* variant: a week without posts fails the invocation
MonthlyFetchUserPosts_failsOnEmpty(e) ==
  /\ pc = "M_fetchUserPosts"
  /\ LET weekDate == getWeeksInMonth(params.year, params.month)[loc.week]
         weekRange == forWeek(weekDate)
         posts == fetchUserPosts(weekRange)
     IN  /\ calls' = Append(calls, Call("fetchUserPosts", weekRange, posts, e))
         /\ IF e # "" THEN Fail(e) /\ UNCHANGED loc
            ELSE IF Len(posts) = 0
            THEN Fail("PostsNotFoundError") /\ UNCHANGED loc
            ELSE /\ loc' = [loc EXCEPT !.hasAnyPosts = TRUE, !.posts = posts]
                 /\ pc' = "M_generateWeeklySummary"
                 /\ UNCHANGED result
  /\ UNCHANGED <<thread, userPosts, env, web, tok, params, thread0>>

MonthlyFetchUserPosts(e) ==
  /\ pc = "M_fetchUserPosts"
  /\ LET weekDate == getWeeksInMonth(params.year, params.month)[loc.week]
         weekRange == forWeek(weekDate)
         posts == fetchUserPosts(weekRange)
     IN  /\ calls' = Append(calls, Call("fetchUserPosts", weekRange, posts, e))
         /\ IF e # "" THEN Fail(e) /\ UNCHANGED loc
            ELSE IF Len(posts) = 0
            THEN /\ loc' = [loc EXCEPT !.week = loc.week + 1]
                 /\ MonthlyContinue(loc.week + 1, loc.hasAnyPosts)
            ELSE /\ loc' = [loc EXCEPT !.hasAnyPosts = TRUE, !.posts = posts]
                 /\ pc' = "M_generateWeeklySummary"
                 /\ UNCHANGED result
  /\ UNCHANGED <<thread, userPosts, env, web, tok, params, thread0>>

\* variant: a failed generation removes what the invocation has posted
MonthlyGenerateWeekly_rollsBack(e) ==
  /\ pc = "M_generateWeeklySummary"
  /\ calls' = Append(calls, Call("generateWeeklySummary", loc.posts, generatedContent(WEEKLY), e))
  /\ IF e # "" THEN Fail(e) /\ thread' = thread0 /\ UNCHANGED loc
     ELSE /\ loc' = [loc EXCEPT !.content = generatedContent(WEEKLY)]
          /\ pc' = "M_postWeekly"
          /\ UNCHANGED <<result, thread>>
  /\ UNCHANGED <<userPosts, env, web, tok, params, thread0>>

MonthlyGenerateWeekly(e) ==
  /\ pc = "M_generateWeeklySummary"
  /\ calls' = Append(calls, Call("generateWeeklySummary", loc.posts, generatedContent(WEEKLY), e))
  /\ IF e # "" THEN Fail(e) /\ UNCHANGED loc
     ELSE /\ loc' = [loc EXCEPT !.content = generatedContent(WEEKLY)]
          /\ pc' = "M_postWeekly"
          /\ UNCHANGED result
  /\ UNCHANGED <<thread, userPosts, env, web, tok, params, thread0>>

\* variant: a failed weekly post is swallowed and the loop goes on
MonthlyPostWeekly_swallows(e) ==
  /\ pc = "M_postWeekly"
  /\ LET weekDate == getWeeksInMonth(params.year, params.month)[loc.week]
         weeklySummary == createWeekly(0, loc.content, forWeek(weekDate), params.year,
                                       getWeek(weekDate))
     IN  /\ calls' = Append(calls, Call("postSummaryToThread", weeklySummary, nextTs, e))
         /\ thread' = IF e # "" THEN thread ELSE postSummaryToThread(weeklySummary)
         /\ loc' = [loc EXCEPT !.week = loc.week + 1]
         /\ MonthlyContinue(loc.week + 1, loc.hasAnyPosts)
  /\ UNCHANGED <<userPosts, env, web, tok, params, thread0>>

MonthlyPostWeekly(e) ==
  /\ pc = "M_postWeekly"
  /\ LET weekDate == getWeeksInMonth(params.year, params.month)[loc.week]
         weeklySummary == createWeekly(0, loc.content, forWeek(weekDate), params.year,
                                       getWeek(weekDate))
     IN  /\ calls' = Append(calls, Call("postSummaryToThread", weeklySummary, nextTs, e))
         /\ IF e # "" THEN Fail(e) /\ UNCHANGED <<thread, loc>>
            ELSE /\ thread' = postSummaryToThread(weeklySummary)
                 /\ loc' = [loc EXCEPT !.week = loc.week + 1]
                 /\ MonthlyContinue(loc.week + 1, loc.hasAnyPosts)
  /\ UNCHANGED <<userPosts, env, web, tok, params, thread0>>

MonthlyFetchSummaries(e) ==
  /\ pc = "M_fetchSummariesFromThread"
  /\ LET thrown == IF missingThreadTs THEN "SlackAPIError"
                   ELSE IF e # "" THEN e
                   ELSE IF fetchThrows(thread, WEEKLY, params.year)
                   THEN "InvalidDateRangeError" ELSE ""
         allWeeklySummaries == fetchSummariesFromThread(thread, WEEKLY, params.year)
         relevant == relevantSummaries(allWeeklySummaries, params.year, params.month)
     IN  /\ calls' = Append(calls, Call("fetchSummariesFromThread", <<WEEKLY, params.year>>,
                                        allWeeklySummaries, thrown))
         /\ IF thrown # "" THEN Fail(thrown) /\ UNCHANGED loc
            ELSE IF Len(relevant) = 0
            THEN Fail("SummaryNotFoundError") /\ UNCHANGED loc
            ELSE /\ loc' = [loc EXCEPT !.allWeekly = allWeeklySummaries,
                                       !.relevant = relevant]
                 /\ pc' = "M_generateMonthlySummary"
                 /\ UNCHANGED result
  /\ UNCHANGED <<thread, userPosts, env, web, tok, params, thread0>>

MonthlyGenerate(e) ==
  /\ pc = "M_generateMonthlySummary"
  /\ calls' = Append(calls, Call("generateMonthlySummary", loc.relevant, generatedContent(MONTHLY), e))
  /\ IF e # "" THEN Fail(e) /\ UNCHANGED loc
     ELSE /\ loc' = [loc EXCEPT !.content = generatedContent(MONTHLY)]
          /\ pc' = "M_postMonthly"
          /\ UNCHANGED result
  /\ UNCHANGED <<thread, userPosts, env, web, tok, params, thread0>>

MonthlyPost(e) ==
  /\ pc = "M_postMonthly"
  /\ LET monthRange == forMonth(NewDate(params.year, params.month - 1, 1))
         summary == createMonthly(0, loc.content, monthRange, params.year, params.month)
     IN  /\ calls' = Append(calls, Call("postSummaryToThread", summary, nextTs, e))
         /\ IF e # "" THEN Fail(e) /\ UNCHANGED thread
            ELSE /\ thread' = postSummaryToThread(summary)
                 /\ result' = ok(createMonthly(nextTs, loc.content, monthRange,
                                               params.year, params.month))
                 /\ pc' = "done"
  /\ UNCHANGED <<userPosts, env, web, tok, params, loc, thread0>>

(***************************************************************************)
(* GenerateYearlySummary.execute                                           *)
(***************************************************************************)
RECURSIVE InsertByMonth(_, _)
InsertByMonth(s, x) ==
  IF s = <<>> THEN <<x>>
  ELSE IF Head(s).month <= x.month THEN <<Head(s)>> \o InsertByMonth(Tail(s), x)
  ELSE <<x>> \o s

\* variant: the list is used in the order it was read
SortByMonth_unsorted(s) == s

RECURSIVE SortByMonth(_)
\* monthlySummaries.sort((a, b) => (a.month ?? 0) - (b.month ?? 0)), a stable sort
SortByMonth(s) ==
  IF s = <<>> THEN <<>>
  ELSE InsertByMonth(SortByMonth(SubSeq(s, 1, Len(s) - 1)), s[Len(s)])

RECURSIVE NextWeekInYear(_, _)
\* head of the while loop of generateAllWeeklySummaries: the first week from
\* currentWeekStart on that is not skipped (it may lie after yearEnd)
NextWeekInYear(currentWeekStart, year) ==
  LET yearStart == NewDate(year, 0, 1)
      yearEnd == NewDate(year, 11, 31)
  IN  IF currentWeekStart <= yearEnd /\ forWeek(currentWeekStart).end < yearStart
      THEN NextWeekInYear(addWeeks(currentWeekStart, 1), year)
      ELSE currentWeekStart

\* first month from m on that has a relevant weekly summary, 13 if there is none
RECURSIVE NextMonthWithWeekly(_, _, _)
NextMonthWithWeekly(allWeeklySummaries, year, m) ==
  IF m > 12 THEN 13
  ELSE IF Len(relevantSummaries(allWeeklySummaries, year, m)) > 0 THEN m
  ELSE NextMonthWithWeekly(allWeeklySummaries, year, m + 1)

StartYearly(year, channel) ==
  /\ pc = "idle"
  /\ params' = [kind |-> YEARLY, year |-> year, month |-> 0, targetDate |-> 0,
                threadTs |-> channel.threadTs]
  /\ loc' = [loc EXCEPT !.week = NextWeekInYear(startOfWeek(NewDate(year, 0, 1)), year),
                        !.weeksWithPosts = 0]
  /\ pc' = "Y_fetchUserPosts"
  /\ thread0' = thread
  /\ UNCHANGED <<thread, userPosts, env, web, tok, result, calls>>

\* control after the body of the week loop: the next week, or the return of
\* generateAllWeeklySummaries and the code after it in execute
\* variant: the weeksWithPosts check after the loop is missing
YearlyContinue_noCheck(nextWeek, weeksWithPosts) ==
  /\ pc' = IF nextWeek <= NewDate(params.year, 11, 31)
           THEN "Y_fetchUserPosts" ELSE "Y_fetchWeeklySummaries"
  /\ UNCHANGED result

YearlyContinue(nextWeek, weeksWithPosts) ==
  IF nextWeek <= NewDate(params.year, 11, 31)
  THEN /\ pc' = "Y_fetchUserPosts"
       /\ UNCHANGED result
  ELSE IF weeksWithPosts = 0
  THEN Fail("PostsNotFoundError")
  ELSE /\ pc' = "Y_fetchWeeklySummaries"
       /\ UNCHANGED result

YearlyFetchUserPosts(e) ==
  /\ pc = "Y_fetchUserPosts"
  /\ LET weekRange == forWeek(loc.week)
         posts == fetchUserPosts(weekRange)
         nextWeek == NextWeekInYear(addWeeks(loc.week, 1), params.year)
     IN  /\ calls' = Append(calls, Call("fetchUserPosts", weekRange, posts, e))
         /\ IF e # "" THEN Fail(e) /\ UNCHANGED loc
            ELSE IF Len(posts) > 0
            THEN /\ loc' = [loc EXCEPT !.posts = posts]
                 /\ pc' = "Y_generateWeeklySummary"
                 /\ UNCHANGED result
            ELSE /\ loc' = [loc EXCEPT !.week = nextWeek]
                 /\ YearlyContinue(nextWeek, loc.weeksWithPosts)
  /\ UNCHANGED <<thread, userPosts, env, web, tok, params, thread0>>

YearlyGenerateWeekly(e) ==
  /\ pc = "Y_generateWeeklySummary"
  /\ calls' = Append(calls, Call("generateWeeklySummary", loc.posts, generatedContent(WEEKLY), e))
  /\ IF e # "" THEN Fail(e) /\ UNCHANGED loc
     ELSE /\ loc' = [loc EXCEPT !.content = generatedContent(WEEKLY)]
          /\ pc' = "Y_postWeekly"
          /\ UNCHANGED result
  /\ UNCHANGED <<thread, userPosts, env, web, tok, params, thread0>>

YearlyPostWeekly(e) ==
  /\ pc = "Y_postWeekly"
  /\ LET weeklySummary == createWeekly(0, loc.content, forWeek(loc.week), params.year,
                                       getWeek(loc.week))
         nextWeek == NextWeekInYear(addWeeks(loc.week, 1), params.year)
     IN  /\ calls' = Append(calls, Call("postSummaryToThread", weeklySummary, nextTs, e))
         /\ IF e # "" THEN Fail(e) /\ UNCHANGED <<thread, loc>>
            ELSE /\ thread' = postSummaryToThread(weeklySummary)
                 /\ loc' = [loc EXCEPT !.week = nextWeek,
                                       !.weeksWithPosts = loc.weeksWithPosts + 1]
                 /\ YearlyContinue(nextWeek, loc.weeksWithPosts + 1)
  /\ UNCHANGED <<userPosts, env, web, tok, params, thread0>>

\* control at the head of the month loop of generateAllMonthlySummaries
YearlyMonthLoop(allWeeklySummaries, m) ==
  LET month == NextMonthWithWeekly(allWeeklySummaries, params.year, m)
  IN  /\ loc' = [loc EXCEPT !.allWeekly = allWeeklySummaries, !.month = month,
                            !.relevant = IF month > 12 THEN <<>>
                                         ELSE relevantSummaries(allWeeklySummaries,
                                                                params.year, month)]
      /\ pc' = IF month > 12 THEN "Y_fetchMonthlySummaries"
               ELSE "Y_generateMonthlySummary"

YearlyFetchWeeklySummaries(e) ==
  /\ pc = "Y_fetchWeeklySummaries"
  /\ LET thrown == IF missingThreadTs THEN "SlackAPIError"
                   ELSE IF e # "" THEN e
                   ELSE IF fetchThrows(thread, WEEKLY, params.year)
                   THEN "InvalidDateRangeError" ELSE ""
         allWeeklySummaries == fetchSummariesFromThread(thread, WEEKLY, params.year)
     IN  /\ calls' = Append(calls, Call("fetchSummariesFromThread", <<WEEKLY, params.year>>,
                                        allWeeklySummaries, thrown))
         /\ IF thrown # "" THEN Fail(thrown) /\ UNCHANGED loc
            ELSE /\ YearlyMonthLoop(allWeeklySummaries, 1)
                 /\ UNCHANGED result
  /\ UNCHANGED <<thread, userPosts, env, web, tok, params, thread0>>

YearlyGenerateMonthly(e) ==
  /\ pc = "Y_generateMonthlySummary"
  /\ calls' = Append(calls, Call("generateMonthlySummary", loc.relevant, generatedContent(MONTHLY), e))
  /\ IF e # "" THEN Fail(e) /\ UNCHANGED loc
     ELSE /\ loc' = [loc EXCEPT !.content = generatedContent(MONTHLY)]
          /\ pc' = "Y_postMonthly"
          /\ UNCHANGED result
  /\ UNCHANGED <<thread, userPosts, env, web, tok, params, thread0>>

YearlyPostMonthly(e) ==
  /\ pc = "Y_postMonthly"
  /\ LET monthRange == forMonth(NewDate(params.year, loc.month - 1, 1))
         monthlySummary == createMonthly(0, loc.content, monthRange, params.year, loc.month)
     IN  /\ calls' = Append(calls, Call("postSummaryToThread", monthlySummary, nextTs, e))
         /\ IF e # "" THEN Fail(e) /\ UNCHANGED <<thread, loc>>
            ELSE /\ thread' = postSummaryToThread(monthlySummary)
                 /\ YearlyMonthLoop(loc.allWeekly, loc.month + 1)
                 /\ UNCHANGED result
  /\ UNCHANGED <<userPosts, env, web, tok, params, thread0>>

YearlyFetchMonthlySummaries(e) ==
  /\ pc = "Y_fetchMonthlySummaries"
  /\ LET thrown == IF missingThreadTs THEN "SlackAPIError"
                   ELSE IF e # "" THEN e
                   ELSE IF fetchThrows(thread, MONTHLY, params.year)
                   THEN "InvalidDateRangeError" ELSE ""
         monthlySummaries == fetchSummariesFromThread(thread, MONTHLY, params.year)
         sortedSummaries == SortByMonth(monthlySummaries)
     IN  /\ calls' = Append(calls, Call("fetchSummariesFromThread", <<MONTHLY, params.year>>,
                                        monthlySummaries, thrown))
         /\ IF thrown # "" THEN Fail(thrown) /\ UNCHANGED loc
            ELSE IF Len(sortedSummaries) = 0
            THEN Fail("SummaryNotFoundError") /\ UNCHANGED loc
            ELSE /\ loc' = [loc EXCEPT !.sorted = sortedSummaries]
                 /\ pc' = "Y_generateYearlySummary"
                 /\ UNCHANGED result
  /\ UNCHANGED <<thread, userPosts, env, web, tok, params, thread0>>

YearlyGenerate(e) ==
  /\ pc = "Y_generateYearlySummary"
  /\ calls' = Append(calls, Call("generateYearlySummary", loc.sorted, generatedContent(YEARLY), e))
  /\ IF e # "" THEN Fail(e) /\ UNCHANGED loc
     ELSE /\ loc' = [loc EXCEPT !.content = generatedContent(YEARLY)]
          /\ pc' = "Y_broadcastSummary"
          /\ UNCHANGED result
  /\ UNCHANGED <<thread, userPosts, env, web, tok, params, thread0>>

\* variant: the yearly summary is posted as a plain thread reply
YearlyBroadcast_viaThread(e) ==
  /\ pc = "Y_broadcastSummary"
  /\ LET yearRange == forYear(params.year)
         summary == createYearly(0, loc.content, yearRange, params.year)
     IN  /\ calls' = Append(calls, Call("postSummaryToThread", summary, nextTs, e))
         /\ IF e # "" THEN Fail(e) /\ UNCHANGED thread
            ELSE /\ thread' = postSummaryToThread(summary)
                 /\ result' = ok(createYearly(nextTs, loc.content, yearRange, params.year))
                 /\ pc' = "done"
  /\ UNCHANGED <<userPosts, env, web, tok, params, loc, thread0>>

YearlyBroadcast(e) ==
  /\ pc = "Y_broadcastSummary"
  /\ LET yearRange == forYear(params.year)
         summary == createYearly(0, loc.content, yearRange, params.year)
         thrown == IF missingThreadTs THEN "SlackAPIError" ELSE e
     IN  /\ calls' = Append(calls, Call("broadcastSummary", summary, nextTs, thrown))
         /\ IF thrown # "" THEN Fail(thrown) /\ UNCHANGED thread
            ELSE /\ thread' = broadcastSummary(summary)
                 /\ result' = ok(createYearly(nextTs, loc.content, yearRange, params.year))
                 /\ pc' = "done"
  /\ UNCHANGED <<userPosts, env, web, tok, params, loc, thread0>>

Next ==
  \/ \E t \in TargetDates, y \in Years : StartWeekly(t, y, ThreadChannel)
  \/ \E e \in {""} \cup SlackErrors : WeeklyFetchUserPosts(e)
  \/ \E e \in {""} \cup AIErrors : WeeklyGenerate(e)
  \/ \E e \in {""} \cup SlackErrors : WeeklyPost(e)
  \/ \E y \in Years, m \in Months : StartMonthly(y, m, ThreadChannel)
  \/ \E e \in {""} \cup SlackErrors : MonthlyFetchUserPosts(e)
  \/ \E e \in {""} \cup AIErrors : MonthlyGenerateWeekly(e)
  \/ \E e \in {""} \cup SlackErrors : MonthlyPostWeekly(e)
  \/ \E e \in {""} \cup SlackErrors : MonthlyFetchSummaries(e)
  \/ \E e \in {""} \cup AIErrors : MonthlyGenerate(e)
  \/ \E e \in {""} \cup SlackErrors : MonthlyPost(e)
  \/ \E y \in Years : StartYearly(y, ThreadChannel)
  \/ \E e \in {""} \cup SlackErrors : YearlyFetchUserPosts(e)
  \/ \E e \in {""} \cup AIErrors : YearlyGenerateWeekly(e)
  \/ \E e \in {""} \cup SlackErrors : YearlyPostWeekly(e)
  \/ \E e \in {""} \cup SlackErrors : YearlyFetchWeeklySummaries(e)
  \/ \E e \in {""} \cup AIErrors : YearlyGenerateMonthly(e)
  \/ \E e \in {""} \cup SlackErrors : YearlyPostMonthly(e)
  \/ \E e \in {""} \cup SlackErrors : YearlyFetchMonthlySummaries(e)
  \/ \E e \in {""} \cup AIErrors : YearlyGenerate(e)
  \/ \E e \in {""} \cup SlackErrors : YearlyBroadcast(e)

Spec == Init /\ [][Next]_vars

(***************************************************************************)
(* The same use cases in a workspace of edge cases: thread entries the     *)
(* decoder cannot read or that carry another year, a channel without a     *)
(* thread id, a month argument outside 1..12, a year whose first week does *)
(* not hold the first Thursday (2021), the Japanese locale, and a backend  *)
(* whose reply is empty, padded with blanks or holds header-like lines     *)
(***************************************************************************)
EdgePosts ==
  { Post(1, MidDay(DayOf(NewDate(2025, 0, 8)))),     \* Wed, week Jan 6 - Jan 12 2025
    Post(2, MidDay(DayOf(NewDate(2021, 0, 6)))) }    \* Wed, week Jan 4 - Jan 10 2021

EdgeTexts ==
  { \* a weekly summary of 2025 that decodes
    Text(WEEKLY, 2025, PeriodLabelEn, NewDate(2025, 0, 13), NewDate(2025, 0, 19), "week 3"),
    \* tagged with another year
    Text(WEEKLY, 2024, PeriodLabelEn, NewDate(2025, 0, 20), NewDate(2025, 0, 26), "of 2024"),
    \* tagged with another year, and a 2025 tag further down in the content
    Text(WEEKLY, 2024, PeriodLabelEn, NewDate(2025, 0, 20), NewDate(2025, 0, 26), "of 2024")
      \o <<getSummaryTag(MONTHLY, 2025)>>,
    \* no period line
    <<getSummaryTag(WEEKLY, 2025), EmptyLine, TextLine("no period")>>,
    \* a date the parser cannot read: 2025/00/10
    <<getSummaryTag(WEEKLY, 2025),
      Line("none", 0, PeriodLabelEn, <<2025, 0, 10>>, <<2025, 1, 12>>, 0, "", 0),
      EmptyLine, TextLine("bad date")>>,
    \* a period whose start is after its end
    <<getSummaryTag(WEEKLY, 2025),
      Line("none", 0, PeriodLabelEn, <<2025, 1, 19>>, <<2025, 1, 13>>, 0, "", 0),
      EmptyLine, TextLine("reversed")>> }

EdgeThreads ==
  UNION { { [i \in 1..n |-> Message(i, f[i], FALSE, TRUE)] :
              f \in { g \in [1..n -> EdgeTexts] :
                        \A i, j \in 1..n : i # j => g[i] # g[j] } }
          : n \in 0..2 }

EdgeEnvs == [locale : {"en_US", "ja_JP"}, ai : {"plain", "empty", "padded", "tagged"}]

Channels == { Channel(TRUE), Channel(FALSE) }

EdgeWeeks == { <<NewDate(2025, 0, 8), 2025>>, <<NewDate(2021, 0, 6), 2021>> }
\* 2040 is a leap year that starts on a Sunday
EdgeYearlyYears == { 2025, 2040 }
EdgeMonths == { <<2025, 1>>, <<2025, 0>>, <<2025, 13>>, <<2025, NaN>>, <<2021, 1>> }

InitEdge ==
  /\ web = NoWeb
  /\ tok = NoTok
  /\ \/ thread \in EdgeThreads /\ env = DefaultEnv
     \/ thread = <<>> /\ env \in EdgeEnvs
  /\ userPosts \in SUBSET EdgePosts
  /\ pc = "idle"
  /\ params = NoParams
  /\ loc = NoLoc
  /\ result = Pending
  /\ calls = <<>>
  /\ thread0 = thread

NextEdge ==
  \/ \E w \in EdgeWeeks, c \in Channels : StartWeekly(w[1], w[2], c)
  \/ \E e \in {""} \cup SlackErrors : WeeklyFetchUserPosts(e)
  \/ \E e \in {""} \cup AIErrors : WeeklyGenerate(e)
  \/ \E e \in {""} \cup SlackErrors : WeeklyPost(e)
  \/ \E m \in EdgeMonths, c \in Channels : StartMonthly(m[1], m[2], c)
  \/ \E e \in {""} \cup SlackErrors : MonthlyFetchUserPosts(e)
  \/ \E e \in {""} \cup AIErrors : MonthlyGenerateWeekly(e)
  \/ \E e \in {""} \cup SlackErrors : MonthlyPostWeekly(e)
  \/ \E e \in {""} \cup SlackErrors : MonthlyFetchSummaries(e)
  \/ \E e \in {""} \cup AIErrors : MonthlyGenerate(e)
  \/ \E e \in {""} \cup SlackErrors : MonthlyPost(e)
  \/ \E y \in EdgeYearlyYears, c \in Channels : StartYearly(y, c)
  \/ \E e \in {""} \cup SlackErrors : YearlyFetchUserPosts(e)
  \/ \E e \in {""} \cup AIErrors : YearlyGenerateWeekly(e)
  \/ \E e \in {""} \cup SlackErrors : YearlyPostWeekly(e)
  \/ \E e \in {""} \cup SlackErrors : YearlyFetchWeeklySummaries(e)
  \/ \E e \in {""} \cup AIErrors : YearlyGenerateMonthly(e)
  \/ \E e \in {""} \cup SlackErrors : YearlyPostMonthly(e)
  \/ \E e \in {""} \cup SlackErrors : YearlyFetchMonthlySummaries(e)
  \/ \E e \in {""} \cup AIErrors : YearlyGenerate(e)
  \/ \E e \in {""} \cup SlackErrors : YearlyBroadcast(e)

SpecEdge == InitEdge /\ [][NextEdge]_vars

(***************************************************************************)
(* Commands one after the other on the same thread: the handler builds a   *)
(* new use case for every command, the thread keeps what was posted        *)
(***************************************************************************)
MaxSeqThread == 3    \* a further command is taken while the thread is shorter

SeqPosts ==
  { Post(1, MidDay(DayOf(NewDate(2025, 0, 8)))),     \* Wed, week Jan 6 - Jan 12 2025
    Post(2, MidDay(DayOf(NewDate(2025, 0, 15)))) }   \* Wed, week Jan 13 - Jan 19 2025

SeqTargetDates == { NewDate(2025, 0, 8), NewDate(2025, 0, 15) }

InitSeq ==
  /\ web = NoWeb
  /\ tok = NoTok
  /\ thread = <<>>
  /\ env = DefaultEnv
  /\ userPosts \in SUBSET SeqPosts
  /\ pc = "idle"
  /\ params = NoParams
  /\ loc = NoLoc
  /\ result = Pending
  /\ calls = <<>>
  /\ thread0 = thread

\* the command has been answered; the next command starts from the thread as
\* it is now, with a use case of its own
NextCommand ==
  /\ pc = "done"
  /\ Len(thread) < MaxSeqThread
  /\ pc' = "idle"
  /\ params' = NoParams
  /\ loc' = NoLoc
  /\ result' = Pending
  /\ calls' = <<>>
  /\ thread0' = thread
  /\ UNCHANGED <<thread, userPosts, env, web, tok>>

NextSeq ==
  \/ NextCommand
  \/ \E t \in SeqTargetDates : StartWeekly(t, 2025, ThreadChannel)
  \/ \E e \in {""} \cup SlackErrors : WeeklyFetchUserPosts(e)
  \/ \E e \in {""} \cup AIErrors : WeeklyGenerate(e)
  \/ \E e \in {""} \cup SlackErrors : WeeklyPost(e)
  \/ StartMonthly(2025, 1, ThreadChannel)
  \/ \E e \in {""} \cup SlackErrors : MonthlyFetchUserPosts(e)
  \/ \E e \in {""} \cup AIErrors : MonthlyGenerateWeekly(e)
  \/ \E e \in {""} \cup SlackErrors : MonthlyPostWeekly(e)
  \/ \E e \in {""} \cup SlackErrors : MonthlyFetchSummaries(e)
  \/ \E e \in {""} \cup AIErrors : MonthlyGenerate(e)
  \/ \E e \in {""} \cup SlackErrors : MonthlyPost(e)
  \/ StartYearly(2025, ThreadChannel)
  \/ \E e \in {""} \cup SlackErrors : YearlyFetchUserPosts(e)
  \/ \E e \in {""} \cup AIErrors : YearlyGenerateWeekly(e)
  \/ \E e \in {""} \cup SlackErrors : YearlyPostWeekly(e)
  \/ \E e \in {""} \cup SlackErrors : YearlyFetchWeeklySummaries(e)
  \/ \E e \in {""} \cup AIErrors : YearlyGenerateMonthly(e)
  \/ \E e \in {""} \cup SlackErrors : YearlyPostMonthly(e)
  \/ \E e \in {""} \cup SlackErrors : YearlyFetchMonthlySummaries(e)
  \/ \E e \in {""} \cup AIErrors : YearlyGenerate(e)
  \/ \E e \in {""} \cup SlackErrors : YearlyBroadcast(e)

SpecSeq == InitSeq /\ [][NextSeq]_vars

(***************************************************************************)
(* POST /slack/command: verification of the request, token lookup, the     *)
(* acknowledgement and the background task that runs the command in a new  *)
(* thread of the user's self-DM                                            *)
(***************************************************************************)
Now == 1000          \* Math.floor(Date.now() / 1000) when the request arrives
MaxSkew == 300       \* 60 * 5 seconds

SigningSecret == "signing secret"

\* createHmac('sha256', secret) of `v0:${timestamp}:${body}`: two signatures
\* are equal when secret, timestamp and body are
hmac(secret, timestamp, body) == [secret |-> secret, timestamp |-> timestamp, body |-> body]

\* variant: the timestamp is not looked at
verifySlackRequest_signatureOnly(body, timestamp, signature, signingSecret) ==
  signature = hmac(signingSecret, timestamp, body)

\* verifySlackRequest; Math.abs(current - NaN) > 300 is false
verifySlackRequest(body, timestamp, signature, signingSecret) ==
  LET tooFar == IF timestamp = NaN THEN FALSE
                ELSE (IF Now >= timestamp THEN Now - timestamp ELSE timestamp - Now) > MaxSkew
  IN  IF tooFar THEN FALSE
      ELSE signature = hmac(signingSecret, timestamp, body)

\* the requests that may arrive
Timestamps == { Now - MaxSkew - 1, Now - MaxSkew, Now, Now + MaxSkew, Now + MaxSkew + 1, NaN }
Bodies == { "weekly", "monthly", "yearly" }
Signatures(timestamp, body) ==
  { hmac(SigningSecret, timestamp, body),      \* signed by Slack
    hmac("another secret", timestamp, body),   \* signed by somebody else
    hmac(SigningSecret, Now - MaxSkew - 1, body),   \* signed for another timestamp
    hmac(SigningSecret, timestamp, "other"),   \* signed for another body
    hmac("", 0, "") }                          \* no X-Slack-Signature header

FirestoreErrors == {"FirestoreError"}

InitWeb ==
  /\ web = NoWeb
  /\ tok = NoTok
  /\ thread = <<>>
  /\ env = DefaultEnv
  /\ userPosts \in SUBSET SeqPosts
  /\ pc = "waiting"
  /\ params = NoParams
  /\ loc = NoLoc
  /\ result = Pending
  /\ calls = <<>>
  /\ thread0 = thread

\* the route up to the verification: AuthenticationError becomes status 401
Receive(timestamp, signature, body) ==
  /\ web.route = "idle"
  /\ IF verifySlackRequest(body, timestamp, signature, SigningSecret)
     THEN web' = [web EXCEPT !.route = "getToken", !.timestamp = timestamp,
                             !.signature = signature, !.body = body]
     ELSE web' = [web EXCEPT !.route = "responded", !.timestamp = timestamp,
                             !.signature = signature, !.body = body,
                             !.status = 401, !.response = "error"]
  /\ UNCHANGED <<thread, userPosts, env, tok, pc, params, loc, result, calls, thread0>>

\* await tokenRepository.getToken(userId) and the rest of the route, which
\* has no await: without a token the link to authorize is returned; with one
\* the background task is scheduled and the acknowledgement returned
RouteGetToken(found, e) ==
  /\ web.route = "getToken"
  /\ web' = [web EXCEPT !.route = "responded",
                        !.getTokenCalls = @ + 1,
                        !.status = IF e # "" THEN 500 ELSE 200,
                        !.response = IF e # "" THEN "error"
                                     ELSE IF found THEN "ack" ELSE "authorize",
                        !.bg = IF e = "" /\ found THEN "scheduled" ELSE @]
  /\ UNCHANGED <<thread, userPosts, env, tok, pc, params, loc, result, calls, thread0>>

\* slackRepository.openSelfDMChannel(userId)
BgOpenSelfDM(e) ==
  /\ web.bg = "scheduled"
  /\ web' = [web EXCEPT !.bg = IF e # "" THEN "end" ELSE "postStart"]
  /\ UNCHANGED <<thread, userPosts, env, tok, pc, params, loc, result, calls, thread0>>

\* the start message, which opens the thread
BgPostStart(e) ==
  /\ web.bg = "postStart"
  /\ web' = [web EXCEPT !.bg = IF e # "" THEN "end" ELSE "refreshToken",
                        !.dm = IF e # "" THEN @ ELSE Append(@, "start")]
  /\ UNCHANGED <<thread, userPosts, env, tok, pc, params, loc, result, calls, thread0>>

\* await tokenRepository.refreshToken(userId), then new SlashCommandHandler
\* and handler.handle: the command may start
BgRefreshToken(e) ==
  /\ web.bg = "refreshToken"
  /\ web' = [web EXCEPT !.bg = IF e # "" THEN "end" ELSE "handle"]
  /\ pc' = IF e # "" THEN pc ELSE "idle"
  /\ UNCHANGED <<thread, userPosts, env, tok, params, loc, result, calls, thread0>>

\* the constructor of SlashCommandHandler or handle throws: inner catch
BgHandleThrows ==
  /\ web.bg = "handle"
  /\ pc = "idle"
  /\ pc' = "waiting"
  /\ web' = [web EXCEPT !.bg = "postError", !.handleThrew = TRUE]
  /\ UNCHANGED <<thread, userPosts, env, tok, params, loc, result, calls, thread0>>

\* handle has returned: the completion message; when posting it throws the
\* inner catch posts the error message
BgPostCompletion(e) ==
  /\ web.bg = "handle"
  /\ pc = "done"
  /\ web' = [web EXCEPT !.bg = IF e # "" THEN "postError" ELSE "end",
                        !.postFailed = IF e # "" THEN TRUE ELSE @,
                        !.dm = IF e # "" THEN @
                               ELSE Append(@, IF result.ok THEN "success" ELSE "failure")]
  /\ UNCHANGED <<thread, userPosts, env, tok, pc, params, loc, result, calls, thread0>>

\* the error message of the inner catch; when posting it throws the outer
\* catch logs the error
BgPostError(e) ==
  /\ web.bg = "postError"
  /\ web' = [web EXCEPT !.bg = "end",
                        !.postFailed = IF e # "" THEN TRUE ELSE @,
                        !.dm = IF e # "" THEN @ ELSE Append(@, "failure")]
  /\ UNCHANGED <<thread, userPosts, env, tok, pc, params, loc, result, calls, thread0>>

\* the switch of SlashCommandHandler.handle on the type of the command
HandleWeekly(targetDate) ==
  /\ web.bg = "handle"
  /\ web.body = "weekly"
  /\ StartWeekly(targetDate, 2025, ThreadChannel)

HandleMonthly(month) ==
  /\ web.bg = "handle"
  /\ web.body = "monthly"
  /\ StartMonthly(2025, month, ThreadChannel)

HandleYearly ==
  /\ web.bg = "handle"
  /\ web.body = "yearly"
  /\ StartYearly(2025, ThreadChannel)

NextWeb ==
  \/ \E ts \in Timestamps, b \in Bodies : \E sig \in Signatures(ts, b) : Receive(ts, sig, b)
  \/ \E found \in BOOLEAN, e \in {""} \cup FirestoreErrors : RouteGetToken(found, e)
  \/ \E e \in {""} \cup SlackErrors : BgOpenSelfDM(e)
  \/ \E e \in {""} \cup SlackErrors : BgPostStart(e)
  \/ \E e \in {""} \cup FirestoreErrors : BgRefreshToken(e)
  \/ BgHandleThrows
  \/ \E e \in {""} \cup SlackErrors : BgPostCompletion(e)
  \/ \E e \in {""} \cup SlackErrors : BgPostError(e)
  \/ \E t \in SeqTargetDates : HandleWeekly(t)
  \/ \E e \in {""} \cup SlackErrors : WeeklyFetchUserPosts(e)
  \/ \E e \in {""} \cup AIErrors : WeeklyGenerate(e)
  \/ \E e \in {""} \cup SlackErrors : WeeklyPost(e)
  \/ HandleMonthly(1)
  \/ \E e \in {""} \cup SlackErrors : MonthlyFetchUserPosts(e)
  \/ \E e \in {""} \cup AIErrors : MonthlyGenerateWeekly(e)
  \/ \E e \in {""} \cup SlackErrors : MonthlyPostWeekly(e)
  \/ \E e \in {""} \cup SlackErrors : MonthlyFetchSummaries(e)
  \/ \E e \in {""} \cup AIErrors : MonthlyGenerate(e)
  \/ \E e \in {""} \cup SlackErrors : MonthlyPost(e)
  \/ HandleYearly
  \/ \E e \in {""} \cup SlackErrors : YearlyFetchUserPosts(e)
  \/ \E e \in {""} \cup AIErrors : YearlyGenerateWeekly(e)
  \/ \E e \in {""} \cup SlackErrors : YearlyPostWeekly(e)
  \/ \E e \in {""} \cup SlackErrors : YearlyFetchWeeklySummaries(e)
  \/ \E e \in {""} \cup AIErrors : YearlyGenerateMonthly(e)
  \/ \E e \in {""} \cup SlackErrors : YearlyPostMonthly(e)
  \/ \E e \in {""} \cup SlackErrors : YearlyFetchMonthlySummaries(e)
  \/ \E e \in {""} \cup AIErrors : YearlyGenerate(e)
  \/ \E e \in {""} \cup SlackErrors : YearlyBroadcast(e)

SpecWeb == InitWeb /\ [][NextWeb]_vars

(***************************************************************************)
(* TokenRepository: calls of saveToken, getToken and refreshToken for one  *)
(* user that run at the same time on the user's document; every await of   *)
(* a Firestore call is a point where another call may run                  *)
(***************************************************************************)
MaxProcs == 3        \* calls that may run at the same time
MaxNow == 4          \* the clock stops here
TOKEN_TTL_MS == 2    \* the time to live of a token, in ticks of the clock

Procs == 1..MaxProcs

IdleProc == [pc |-> "idle", snap |-> NoDoc, expiresAt |-> 0]

TokenDoc(id, expiresAt) == [exists |-> TRUE, id |-> id, expiresAt |-> expiresAt]

InitToken ==
  /\ tok \in [doc : {NoDoc, TokenDoc(0, 1)},
              now : {0},
              procs : {[p \in Procs |-> IdleProc]},
              returned : {<<>>},
              lastSaved : {NoDoc}]
  /\ web = NoWeb
  /\ thread = <<>>
  /\ env = DefaultEnv
  /\ userPosts = {}
  /\ pc = "waiting"
  /\ params = NoParams
  /\ loc = NoLoc
  /\ result = Pending
  /\ calls = <<>>
  /\ thread0 = thread

TokUnchanged == UNCHANGED <<thread, userPosts, env, web, pc, params, loc, result, calls, thread0>>

\* time passes
Tick ==
  /\ tok.now < MaxNow
  /\ tok' = [tok EXCEPT !.now = @ + 1]
  /\ TokUnchanged

\* saveToken up to its await: expiresAt = now + TOKEN_TTL_MS
SaveTokenStart(p) ==
  /\ tok.procs[p].pc = "idle"
  /\ tok' = [tok EXCEPT !.procs[p] = [pc |-> "save_set", snap |-> NoDoc,
                                      expiresAt |-> tok.now + TOKEN_TTL_MS]]
  /\ TokUnchanged

\* doc(userId).set(...): the document is replaced
SaveTokenSet(p) ==
  /\ tok.procs[p].pc = "save_set"
  /\ tok' = [tok EXCEPT !.doc = TokenDoc(p, tok.procs[p].expiresAt),
                        !.lastSaved = TokenDoc(p, tok.procs[p].expiresAt),
                        !.procs[p].pc = "done"]
  /\ TokUnchanged

\* getToken: doc(userId).get()
GetTokenRead(p) ==
  /\ tok.procs[p].pc = "idle"
  /\ tok' = [tok EXCEPT !.procs[p] = [pc |-> "get_check", snap |-> tok.doc, expiresAt |-> 0]]
  /\ TokUnchanged

\* getToken after the read: null without a document, deleteToken for an
\* expired one, the token otherwise
GetTokenCheck(p) ==
  /\ tok.procs[p].pc = "get_check"
  /\ LET snap == tok.procs[p].snap
     IN  IF ~snap.exists
         THEN tok' = [tok EXCEPT !.procs[p].pc = "done"]
         ELSE IF snap.expiresAt <= tok.now
         THEN tok' = [tok EXCEPT !.procs[p].pc = "get_delete"]
         ELSE tok' = [tok EXCEPT !.procs[p].pc = "done",
                                 !.returned = Append(@, [expiresAt |-> snap.expiresAt,
                                                         at |-> tok.now])]
  /\ TokUnchanged

\* deleteToken: doc(userId).delete(), whatever the document holds by now
DeleteToken(p) ==
  /\ tok.procs[p].pc = "get_delete"
  /\ tok' = [tok EXCEPT !.doc = NoDoc, !.procs[p].pc = "done"]
  /\ TokUnchanged

\* refreshToken: doc(userId).get()
RefreshTokenRead(p) ==
  /\ tok.procs[p].pc = "idle"
  /\ tok' = [tok EXCEPT !.procs[p] = [pc |-> "refresh_stamp", snap |-> tok.doc, expiresAt |-> 0]]
  /\ TokUnchanged

\* refreshToken after the read: nothing without a document, otherwise
\* expiresAt = Date.now() + TOKEN_TTL_MS
RefreshTokenStamp(p) ==
  /\ tok.procs[p].pc = "refresh_stamp"
  /\ tok' = IF tok.procs[p].snap.exists
            THEN [tok EXCEPT !.procs[p].pc = "refresh_update",
                             !.procs[p].expiresAt = tok.now + TOKEN_TTL_MS]
            ELSE [tok EXCEPT !.procs[p].pc = "done"]
  /\ TokUnchanged

\* doc.ref.update({ expiresAt }): rejected when the document is gone
RefreshTokenUpdate(p) ==
  /\ tok.procs[p].pc = "refresh_update"
  /\ tok' = IF tok.doc.exists
            THEN [tok EXCEPT !.doc.expiresAt = tok.procs[p].expiresAt,
                             !.procs[p].pc = "done"]
            ELSE [tok EXCEPT !.procs[p].pc = "threw"]
  /\ TokUnchanged

NextToken ==
  \/ Tick
  \/ \E p \in Procs : SaveTokenStart(p)
  \/ \E p \in Procs : SaveTokenSet(p)
  \/ \E p \in Procs : GetTokenRead(p)
  \/ \E p \in Procs : GetTokenCheck(p)
  \/ \E p \in Procs : DeleteToken(p)
  \/ \E p \in Procs : RefreshTokenRead(p)
  \/ \E p \in Procs : RefreshTokenStamp(p)
  \/ \E p \in Procs : RefreshTokenUpdate(p)

SpecToken == InitToken /\ [][NextToken]_vars

(***************************************************************************)
(* Properties                                                              *)
(***************************************************************************)
\* indices of the calls of the invocation to the function fn
CallIdx(fn) == { i \in DOMAIN calls : calls[i].fn = fn }

AllCallsOk == \A i \in DOMAIN calls : calls[i].ok

\* the messages the invocation has appended to the thread
Appended == SubSeq(thread, Len(thread0) + 1, Len(thread))

\* C1: generateWeekly, once fetchUserPosts has returned a non-empty list P,
\* calls fetchUserPosts no more, calls generateWeeklySummary next, once, with
\* exactly P, calls postSummaryToThread only after the generation returned,
\* once, and when these calls return it returns ok with a weekly Summary
\* whose id is the id the post returned (the timestamp of the one message
\* that was appended to the thread).
C1_WeeklyGeneratesOncePostsOnce ==
  (params.kind = WEEKLY /\ Len(calls) >= 1 /\ calls[1].ok /\ Len(calls[1].ret) > 0) =>
    /\ Cardinality(CallIdx("fetchUserPosts")) = 1
    /\ Cardinality(CallIdx("generateWeeklySummary")) <= 1
    /\ Cardinality(CallIdx("postSummaryToThread")) <= 1
    /\ Len(calls) <= 3
    /\ Len(calls) >= 2 =>
         calls[2].fn = "generateWeeklySummary" /\ calls[2].arg = calls[1].ret
    /\ Len(calls) >= 3 => calls[2].ok /\ calls[3].fn = "postSummaryToThread"
    /\ (pc = "done" /\ AllCallsOk) =>
         /\ Len(calls) = 3
         /\ result.ok
         /\ result.value.type = WEEKLY
         /\ result.value.id = calls[3].ret
         /\ Len(Appended) = 1
         /\ Appended[1].ts = result.value.id
         /\ parseSummaryType(Appended[1].text) = WEEKLY
    /\ (pc = "done" /\ result.ok) => AllCallsOk

\* a weekly invocation over a week with two posts has returned ok
C1_Witness ==
  /\ params.kind = WEEKLY
  /\ pc = "done"
  /\ result.ok
  /\ Len(calls[1].ret) = 2

\* C2: generateWeekly, when fetchUserPosts returns no post, returns the
\* PostsNotFoundError failure, makes no other call (neither
\* generateWeeklySummary nor postSummaryToThread) and leaves the thread as it
\* was.
C2_WeeklyNoPosts ==
  (params.kind = WEEKLY /\ Len(calls) >= 1 /\ calls[1].ok /\ calls[1].ret = <<>>) =>
    /\ pc = "done"
    /\ result = err("PostsNotFoundError")
    /\ Len(calls) = 1
    /\ thread = thread0

\* a weekly invocation has fetched an empty week
C2_Witness ==
  /\ params.kind = WEEKLY
  /\ pc = "done"
  /\ Len(calls) = 1
  /\ calls[1].ok
  /\ calls[1].ret = <<>>

\* the last call of the invocation is a call of fn
LastCallIs(fn) == Len(calls) >= 1 /\ calls[Len(calls)].fn = fn

LastCall == calls[Len(calls)]

\* the calendar days of a month and of the period of a summary
DaysOfMonth(year, month) ==
  LET first == DayOf(NewDate(year, month - 1, 1))
  IN  first..(first + DaysInMonth(year, month) - 1)

DaysOfSummary(summary) == DayOf(summary.dateRange.start)..DayOf(summary.dateRange.end)

\* the summaries of kind type read back from the thread under the year tag,
\* cut down to those that share a day with the month
ReadBackInMonth(type, year, month) ==
  LET shares(summary) == DaysOfSummary(summary) \cap DaysOfMonth(year, month) # {}
  IN  SelectSeq(fetchSummariesFromThread(thread, type, year), shares)

\* C3: in generateMonthly(year, month) the list passed to
\* generateMonthlySummary is exactly the weekly summaries read back from the
\* thread for the year whose period shares a day with the month, in thread
\* order: a boundary week (Dec 30 2024 - Jan 5 2025 for January 2025) is in
\* the list and a week outside the month is not; the backend is called once.
C3_MonthlyPassesOverlappingWeeks ==
  params.kind = MONTHLY =>
    /\ Cardinality(CallIdx("generateMonthlySummary")) <= 1
    /\ LastCallIs("generateMonthlySummary") =>
         LastCall.arg = ReadBackInMonth(WEEKLY, params.year, params.month)

\* generateMonthly for January 2025 passes the boundary week Dec 30 - Jan 5
\* and leaves out a weekly summary of March that is in the thread
C3_Witness ==
  /\ params.kind = MONTHLY
  /\ params.month = 1
  /\ LastCallIs("generateMonthlySummary")
  /\ \E i \in DOMAIN LastCall.arg :
       /\ LastCall.arg[i].dateRange.start = NewDate(2024, 11, 30)
       /\ DayOf(LastCall.arg[i].dateRange.end) = DayOf(NewDate(2025, 0, 5))
  /\ Len(fetchSummariesFromThread(thread, WEEKLY, params.year)) > Len(LastCall.arg)

IsSortedByMonth(s) == \A i, j \in DOMAIN s : i < j => s[i].month <= s[j].month

Range(s) == { s[i] : i \in DOMAIN s }

\* C4: the list generateYearly passes to generateYearlySummary is the monthly
\* summaries read back from the thread, ascending by month, whatever their
\* order in the thread.
C4_YearlyPassesSortedMonths ==
  (params.kind = YEARLY /\ LastCallIs("generateYearlySummary")) =>
    LET read == fetchSummariesFromThread(thread, MONTHLY, params.year)
    IN  /\ IsSortedByMonth(LastCall.arg)
        /\ Len(LastCall.arg) = Len(read)
        /\ Range(LastCall.arg) = Range(read)

\* the monthly summaries were read back out of month order
C4_Witness ==
  /\ params.kind = YEARLY
  /\ LastCallIs("generateYearlySummary")
  /\ ~IsSortedByMonth(fetchSummariesFromThread(thread, MONTHLY, params.year))
  /\ Len(LastCall.arg) >= 3

\* C5: generateYearly calls broadcastSummary at most once, only with the
\* yearly summary and only as its last call; it never posts a yearly summary
\* with postSummaryToThread; when it returns ok it has called
\* broadcastSummary exactly once and the returned id is that of the one
\* broadcast message in the thread.
C5_YearlyBroadcastOnce ==
  params.kind = YEARLY =>
    /\ Cardinality(CallIdx("broadcastSummary")) <= 1
    /\ \A i \in CallIdx("broadcastSummary") :
         i = Len(calls) /\ calls[i].arg.type = YEARLY
    /\ \A i \in CallIdx("postSummaryToThread") : calls[i].arg.type # YEARLY
    /\ \A k \in DOMAIN Appended :
         (Appended[k].broadcast \/ parseSummaryType(Appended[k].text) = YEARLY) =>
           /\ k = Len(Appended)
           /\ Appended[k].broadcast
           /\ parseSummaryType(Appended[k].text) = YEARLY
    /\ (pc = "done" /\ result.ok) =>
         /\ LastCallIs("broadcastSummary")
         /\ LastCall.ok
         /\ result.value.type = YEARLY
         /\ Len(Appended) >= 1
         /\ Appended[Len(Appended)].broadcast
         /\ Appended[Len(Appended)].ts = result.value.id

\* a yearly invocation has returned ok
C5_Witness ==
  /\ params.kind = YEARLY
  /\ pc = "done"
  /\ result.ok
  /\ Cardinality(CallIdx("postSummaryToThread")) >= 2

\* C6: the three entry points return a Result and never throw: a failed
\* gateway or backend call is the last call of the invocation, and the
\* invocation has returned the failure that carries the error of that call.
C6_FailureEndsInvocation ==
  /\ \A i \in DOMAIN calls :
       ~calls[i].ok =>
         /\ i = Len(calls)
         /\ pc = "done"
         /\ result = err(calls[i].error)
  /\ pc = "done" <=> result # Pending

\* a monthly invocation failed when posting a weekly summary, after an
\* earlier week was posted
C6_Witness ==
  /\ params.kind = MONTHLY
  /\ pc = "done"
  /\ LastCallIs("postSummaryToThread")
  /\ ~LastCall.ok
  /\ LastCall.arg.type = WEEKLY
  /\ Len(Appended) >= 1

IsPosting(c) == c.fn \in {"postSummaryToThread", "broadcastSummary"} /\ c.ok

Posted == SelectSeq(calls, IsPosting)

\* C7: in generateMonthly and generateYearly the thread is always the thread
\* the invocation started with followed by one message per posting call that
\* returned, in call order and with the posted text: a failure removes and
\* rewrites nothing; and a failed invocation returns one error and no summary.
C7_NoRollback ==
  params.kind \in {MONTHLY, YEARLY} =>
    /\ Len(thread) >= Len(thread0)
    /\ SubSeq(thread, 1, Len(thread0)) = thread0
    /\ Len(Appended) = Len(Posted)
    /\ \A k \in DOMAIN Appended :
         /\ Appended[k].text = toSlackMessage(Posted[k].arg, periodLabel)
         /\ Appended[k].ts = Posted[k].ret
    /\ (pc = "done" /\ ~result.ok) =>
         /\ result.value = NoSummary
         /\ result.error \in {"PostsNotFoundError", "SummaryNotFoundError",
                              "InvalidDateRangeError"} \cup SlackErrors \cup AIErrors

\* a yearly invocation failed in the backend after it posted two sub-summaries
C7_Witness ==
  /\ params.kind = YEARLY
  /\ pc = "done"
  /\ ~result.ok
  /\ LastCallIs("generateMonthlySummary")
  /\ Len(Appended) >= 2

\* Mondays of the weeks that share a day with the set of days D
WeeksTouching(D) == { d - (d % 7) : d \in D }

DaysOfYear(year) == YearStart[year]..(YearStart[year + 1] - 1)

\* the weeks of W in which the user has a post
WeeksWithPosts(W) ==
  { w \in W : \E p \in userPosts : DayOf(p.timestamp) \in w..(w + 6) }

\* the weeks the running monthly or yearly invocation covers
CoveredWeeks ==
  IF params.kind = MONTHLY THEN WeeksTouching(DaysOfMonth(params.year, params.month))
  ELSE WeeksTouching(DaysOfYear(params.year))

\* C8: generateMonthly, when no week that shares a day with the month has a
\* post, calls nothing but fetchUserPosts (no backend, no post, no read of
\* the thread), leaves the thread as it was, and returns PostsNotFoundError
\* when the fetches return.
C8_MonthlyNoPosts ==
  (params.kind = MONTHLY /\ WeeksWithPosts(CoveredWeeks) = {}) =>
    /\ \A i \in DOMAIN calls : calls[i].fn = "fetchUserPosts"
    /\ thread = thread0
    /\ pc = "done" => ~result.ok
    /\ (pc = "done" /\ AllCallsOk) =>
         /\ result = err("PostsNotFoundError")
         /\ Len(calls) = Cardinality(CoveredWeeks)

\* generateMonthly for January found no post although the thread holds a
\* weekly summary of that month
C8_Witness ==
  /\ params.kind = MONTHLY
  /\ params.month = 1
  /\ pc = "done"
  /\ result = err("PostsNotFoundError")
  /\ Len(ReadBackInMonth(WEEKLY, params.year, params.month)) > 0

WeekOfPosts(posts) == DayOf(posts[1].timestamp) - (DayOf(posts[1].timestamp) % 7)

IsWeeklyPost(c) == c.fn = "postSummaryToThread" /\ c.arg.type = WEEKLY

\* the week loop of the invocation is over and no call of it failed
WeekLoopDone ==
  /\ AllCallsOk
  /\ \/ pc = "done"
     \/ CallIdx("fetchSummariesFromThread") # {}
     \/ pc \in {"M_fetchSummariesFromThread", "Y_fetchWeeklySummaries"}

\* C10: in generateMonthly and generateYearly a week without posts is
\* skipped and does not fail the invocation: generateWeeklySummary is called
\* at most once per covered week, only for a week with posts and with exactly
\* the posts of that week; the weekly posts are of those weeks, each at most
\* once; when the week loop is over there is exactly one generation and one
\* weekly post per week with posts; PostsNotFoundError is returned only when
\* no covered week has a post.
C10_EmptyWeeksSkipped ==
  params.kind \in {MONTHLY, YEARLY} =>
    LET gens == CallIdx("generateWeeklySummary")
        posts == { i \in DOMAIN calls : IsWeeklyPost(calls[i]) }
        nonEmpty == WeeksWithPosts(CoveredWeeks)
    IN  /\ \A i \in gens :
             /\ Len(calls[i].arg) > 0
             /\ WeekOfPosts(calls[i].arg) \in nonEmpty
             /\ calls[i].arg =
                  fetchUserPosts(forWeek(StartOfDay(WeekOfPosts(calls[i].arg))))
        /\ \A i, j \in gens :
             i # j => WeekOfPosts(calls[i].arg) # WeekOfPosts(calls[j].arg)
        /\ \A i \in posts : DayOf(calls[i].arg.dateRange.start) \in nonEmpty
        /\ \A i, j \in posts :
             i # j => calls[i].arg.dateRange # calls[j].arg.dateRange
        /\ WeekLoopDone =>
             /\ Cardinality(gens) = Cardinality(nonEmpty)
             /\ Cardinality(posts) = Cardinality(nonEmpty)
             /\ Cardinality(CallIdx("fetchUserPosts")) = Cardinality(CoveredWeeks)
        /\ (pc = "done" /\ result.error = "PostsNotFoundError") => nonEmpty = {}

\* a monthly invocation returned ok after it skipped an empty week between
\* two weeks with posts
C10_Witness ==
  /\ params.kind = MONTHLY
  /\ pc = "done"
  /\ result.ok
  /\ Cardinality(CallIdx("generateWeeklySummary")) = 2
  /\ \E i \in CallIdx("fetchUserPosts") :
       /\ calls[i].ret = <<>>
       /\ \E j, k \in CallIdx("generateWeeklySummary") : j < i /\ i < k

\* the period labels of the locales
LocaleLabels == { localePeriodLabel(locale) : locale \in {"en_US", "ja_JP"} }

\* Summary.equals when one side has no id: same kind and same period
SameKindAndPeriod(a, b) ==
  /\ a.type = b.type
  /\ a.dateRange.start = b.dateRange.start
  /\ a.dateRange.end = b.dateRange.end

\* C11: every summary s an invocation has posted (its period comes from
\* forWeek, forMonth or forYear), rendered with either locale's period label
\* and decoded with s.year, comes back as a summary with the same period start
\* and the same period end instant, hence equal to s by kind and period.
C11_PeriodRoundTrip ==
  \A k \in DOMAIN Posted : \A label \in LocaleLabels :
    LET s == Posted[k].arg
        decoded == parseSummaryMessage(toSlackMessage(s, label), Posted[k].ret, s.year)
    IN  /\ decoded.kind = "summary"
        /\ SameKindAndPeriod(decoded.summary, s)

\* what the decoder makes of the message the k-th posting call posted
DecodedPost(k) ==
  parseSummaryMessage(toSlackMessage(Posted[k].arg, periodLabel), Posted[k].ret,
                      Posted[k].arg.year)

\* C12: decoding a posted message returns exactly the content of the summary
\* that was posted, whatever the content: lines of the content that hold a
\* kind tag or a period label, and blank lines or blanks at its two ends, are
\* kept.
C12_ContentRoundTrip ==
  \A k \in DOMAIN Posted :
    /\ DecodedPost(k).kind = "summary"
    /\ DecodedPost(k).summary.content = Posted[k].arg.content

\* the year embedded in the kind tag of a message: the tag the encoder writes
\* is the first tag of the text
KindTagYear(text) ==
  text[CHOOSE i \in DOMAIN text :
         /\ text[i].tagType # "none"
         /\ \A j \in DOMAIN text : text[j].tagType # "none" => i <= j].tagYear

EdgeYears == { 2021, 2025 }

\* the decoder returns null for a message whose kind tag embeds another year
C13_DecodeRejects(msg, y) == parseSummaryMessage(msg.text, msg.ts, y).kind = "null"

\* fetchSummariesFromThread of the year returns no entry for the message
C13_FetchRejects(msg, y) ==
  \A type \in SummaryTypes :
    \A s \in Range(fetchSummariesFromThread(thread, type, y)) : s.id # msg.ts

\* C13: for every message of the thread whose kind tag embeds a year other
\* than y, decoding with expected year y returns null and
\* fetchSummariesFromThread for year y returns no entry for it, whatever the
\* rest of the message holds.
C13_YearMismatchRejected ==
  \A i \in DOMAIN thread : \A y \in EdgeYears :
    (parseSummaryType(thread[i].text) # "none" /\ KindTagYear(thread[i].text) # y)
      => C13_DecodeRejects(thread[i], y) /\ C13_FetchRejects(thread[i], y)

\* a reply of the thread the decoder makes no summary of
Undecodable(msg, year) ==
  msg.reply /\ parseSummaryMessage(msg.text, msg.ts, year).kind # "summary"

\* C14: a thread entry that cannot be decoded (no kind tag, no period line, a
\* date that cannot be parsed, a period whose start is after its end) is
\* treated as absent: a fetchSummariesFromThread call on a thread that holds
\* such an entry fails only with an error of the gateway, never because of the
\* entry, and when it returns it returns the remaining entries.
C14_UndecodableTreatedAbsent ==
  \A i \in DOMAIN calls :
    (/\ calls[i].fn = "fetchSummariesFromThread"
     /\ \E k \in DOMAIN thread0 : Undecodable(thread0[k], params.year))
      => /\ calls[i].error \in {""} \cup SlackErrors
         /\ calls[i].ok =>
              \A s \in Range(calls[i].ret) :
                \E k \in DOMAIN thread : thread[k].ts = s.id /\ ~Undecodable(thread[k], params.year)

\* C15: the weekNumber stored in every weekly summary that is posted is the
\* ISO-8601 week number of the Monday its period starts on, the number the
\* decoder derives from the posted period start.
C15_WeekNumberIsISO ==
  \A k \in DOMAIN Posted :
    Posted[k].arg.type = WEEKLY
      => Posted[k].arg.weekNumber = extractWeekNumber(Posted[k].arg.dateRange.start)

ThreadCalls == {"postSummaryToThread", "broadcastSummary", "fetchSummariesFromThread"}

\* C16: in an invocation on a channel without a thread id every call of
\* postSummaryToThread, broadcastSummary and fetchSummariesFromThread fails,
\* no message is posted anywhere, and the invocation does not return ok.
C16_NoThreadIdNoPost ==
  (params.kind # "none" /\ missingThreadTs)
    => /\ \A i \in DOMAIN calls : calls[i].fn \in ThreadCalls => ~calls[i].ok
       /\ thread = thread0
       /\ pc = "done" => ~result.ok

\* the month argument of the invocation is not a month of the year
BadMonth == params.kind = MONTHLY /\ (params.month = NaN \/ params.month \notin 1..12)

GenerationCalls == {"generateWeeklySummary", "generateMonthlySummary", "generateYearlySummary"}

\* C18: when the generation backend hands back an empty text the invocation
\* is aborted with a failure at that call, and no summary with empty content
\* is posted.
C18_EmptyGenerationAborts ==
  /\ \A i \in DOMAIN calls :
       (calls[i].fn \in GenerationCalls /\ calls[i].ok /\ calls[i].ret = EmptyString)
         => i = Len(calls) /\ pc = "done" /\ ~result.ok
  /\ \A k \in DOMAIN Posted : Posted[k].arg.content # EmptyString

\* the message an earlier command posted for the same week, if there is one
SameWeekPostedBefore ==
  { k \in DOMAIN thread0 :
      \E j \in DOMAIN Appended :
        /\ parseSummaryType(thread0[k].text) = WEEKLY
        /\ thread0[k].text = Appended[j].text }

\* C19: a weekly invocation that returns ok has appended one weekly summary
\* whose id no message of the thread had, also when the thread already holds
\* the summary an earlier invocation posted for the same week, and that
\* earlier summary is still in the thread; and in no invocation a posting
\* call comes after a fetchSummariesFromThread for summaries of the kind it
\* posts.
C19_NoDeduplication ==
  /\ (params.kind = WEEKLY /\ pc = "done" /\ result.ok)
       => /\ Len(Appended) = 1
          /\ parseSummaryType(Appended[1].text) = WEEKLY
          /\ result.value.id = Appended[1].ts
          /\ \A k \in DOMAIN thread0 : thread0[k].ts # Appended[1].ts
          /\ SubSeq(thread, 1, Len(thread0)) = thread0
  /\ \A j \in DOMAIN calls :
       calls[j].fn \in {"postSummaryToThread", "broadcastSummary"}
         => \A i \in 1..(j - 1) :
              calls[i].fn = "fetchSummariesFromThread" => calls[i].arg[1] # calls[j].arg.type

\* the second weekly invocation for a week has returned ok
C19_Witness ==
  /\ params.kind = WEEKLY
  /\ pc = "done"
  /\ result.ok
  /\ SameWeekPostedBefore # {}
  /\ Len(thread) = Len(thread0) + 1

\* the posting calls the invocation has made, returned or not
IsPostingCall(c) == c.fn \in {"postSummaryToThread", "broadcastSummary"}
PostingCalls == SelectSeq(calls, IsPostingCall)

KindRank(type) == IF type = WEEKLY THEN 1 ELSE IF type = MONTHLY THEN 2 ELSE 3

\* the first of two posting calls is for the earlier period
PostedBefore(a, b) ==
  /\ KindRank(a.arg.type) <= KindRank(b.arg.type)
  /\ (a.arg.type = WEEKLY /\ b.arg.type = WEEKLY)
       => a.arg.dateRange.start < b.arg.dateRange.start
  /\ (a.arg.type = MONTHLY /\ b.arg.type = MONTHLY) => a.arg.month < b.arg.month
  /\ a.arg.type # YEARLY

\* C20: in a monthly or yearly invocation the posting calls are strictly
\* ordered: weekly summaries in ascending order of period start, every weekly
\* post before every monthly post, monthly summaries in ascending month order,
\* the yearly broadcast last; a posting call is made only after the posting
\* call before it has returned, and its message comes later in the thread.
C20_PostingCallsOrdered ==
  params.kind \in {MONTHLY, YEARLY}
    => \A i, j \in DOMAIN PostingCalls :
         i < j => /\ PostedBefore(PostingCalls[i], PostingCalls[j])
                  /\ PostingCalls[i].ok
                  /\ PostingCalls[j].ok => PostingCalls[i].ret < PostingCalls[j].ret

\* a yearly invocation has returned ok after two weekly and two monthly posts
C20_Witness ==
  /\ params.kind = YEARLY
  /\ pc = "done"
  /\ result.ok
  /\ Cardinality({ k \in DOMAIN Posted : Posted[k].arg.type = WEEKLY }) >= 2
  /\ Cardinality({ k \in DOMAIN Posted : Posted[k].arg.type = MONTHLY }) >= 2
  /\ Posted[Len(Posted)].fn = "broadcastSummary"

IsSortedByStart(s) ==
  \A i, j \in DOMAIN s : i < j => s[i].dateRange.start <= s[j].dateRange.start

\* C21: whatever weekly and monthly invocations ran on the thread before, and
\* in whatever order their weeks were generated, the list of weekly summaries
\* a monthly invocation passes to generateMonthlySummary is ordered by period
\* start ascending.
C21_MonthlyPassesSortedWeeks ==
  params.kind = MONTHLY
    => \A i \in CallIdx("generateMonthlySummary") : IsSortedByStart(calls[i].arg)

\* the Mondays whose Monday-to-Sunday week has a day in the month
MondaysIntersecting(year, month) ==
  LET D == DaysOfMonth(year, month)
      first == DayOf(NewDate(year, month - 1, 1))
  IN  { d \in (first - 6)..(first + 30) : d % 7 = 0 /\ \E k \in 0..6 : d + k \in D }

\* a sequence of week starts is the ascending enumeration of a set of Mondays
EnumeratesMondays(weeks, M) ==
  /\ { DayOf(weeks[i]) : i \in DOMAIN weeks } = M
  /\ \A i \in DOMAIN weeks : weeks[i] = StartOfDay(DayOf(weeks[i]))
  /\ \A i, j \in DOMAIN weeks : i < j => weeks[i] < weeks[j]

IsFetchUserPosts(c) == c.fn = "fetchUserPosts"

\* the starts of the weeks the invocation has fetched the posts of
WeeksFetched ==
  LET f == SelectSeq(calls, IsFetchUserPosts)
  IN  [i \in 1..Len(f) |-> f[i].arg.start]

\* C22: the weeks a monthly invocation iterates are Monday-to-Sunday weeks
\* that intersect the month, each fetched once and in chronological order, and
\* when the week loop is over they are all of them, the boundary weeks that
\* start in the month before or end in the month after included; the week
\* list is that enumeration for every month of every year of the calendar.
C22_MonthWeeksExact ==
  params.kind = MONTHLY
    => /\ \A i \in DOMAIN calls :
            IsFetchUserPosts(calls[i])
              => calls[i].arg = DateRange(StartOfDay(DayOf(calls[i].arg.start)),
                                          EndOfDay(DayOf(calls[i].arg.start) + 6))
       /\ \A i, j \in DOMAIN WeeksFetched : i < j => WeeksFetched[i] < WeeksFetched[j]
       /\ { DayOf(WeeksFetched[i]) : i \in DOMAIN WeeksFetched }
            \subseteq MondaysIntersecting(params.year, params.month)
       /\ WeekLoopDone
            => EnumeratesMondays(WeeksFetched, MondaysIntersecting(params.year, params.month))
       /\ calls = <<>>
            => \A y \in YearRange : \A m \in 1..12 :
                 EnumeratesMondays(getWeeksInMonth(y, m), MondaysIntersecting(y, m))

\* the week loop of June 2025 is over: six weeks, the first starts on May 26
\* (its Sunday is June 1), the last on June 30
C22_Witness ==
  /\ params.kind = MONTHLY
  /\ params.month = 6
  /\ WeekLoopDone
  /\ Len(WeeksFetched) = 6
  /\ WeeksFetched[1] = NewDate(2025, 4, 26)
  /\ WeeksFetched[6] = NewDate(2025, 5, 30)

\* the kind-field invariant of a Summary (0 stands for a field that is not set)
KindFields(s) ==
  /\ s.type = WEEKLY => s.weekNumber \in 1..53 /\ s.month = 0
  /\ s.type = MONTHLY => s.month \in 1..12 /\ s.weekNumber = 0
  /\ s.type = YEARLY => s.month = 0 /\ s.weekNumber = 0

\* the summaries the decoder makes of the messages of the thread
DecodedOfThread ==
  { parseSummaryMessage(thread[k].text, thread[k].ts, y).summary :
      <<k, y>> \in { p \in (DOMAIN thread) \X Years :
                       parseSummaryMessage(thread[p[1]].text, thread[p[1]].ts, p[2]).kind
                         = "summary" } }

\* the summaries the invocation has built, posted, read back or returned
ProducedSummaries ==
  { calls[i].arg : i \in { j \in DOMAIN calls : IsPostingCall(calls[j]) } }
    \cup UNION { Range(calls[i].ret) :
                   i \in { j \in DOMAIN calls :
                             calls[j].fn = "fetchSummariesFromThread" /\ calls[j].ok } }
    \cup (IF result.ok THEN {result.value} ELSE {})

SignatureMismatch ==
  web.signature # hmac(SigningSecret, web.timestamp, web.body)

\* the timestamp of the request is more than 5 minutes from the current time
TimestampTooFar ==
  /\ web.timestamp # NaN
  /\ \/ web.timestamp > Now + 5 * 60
     \/ web.timestamp < Now - 5 * 60

\* C24: a request whose signature does not match the HMAC of its body and
\* timestamp, and a request whose timestamp is more than 5 minutes from the
\* current time even with a valid signature, is answered with status 401; no
\* token lookup was made for it, no background task was scheduled, nothing
\* was posted and no command was started.
C24_BadRequestRejected ==
  (web.route # "idle" /\ (SignatureMismatch \/ TimestampTooFar))
    => /\ web.route = "responded"
       /\ web.status = 401
       /\ web.getTokenCalls = 0
       /\ web.bg = "none"
       /\ web.dm = <<>>
       /\ pc = "waiting"
       /\ calls = <<>>

\* a request signed by Slack 301 seconds ago has been rejected
C24_Witness ==
  /\ web.route = "responded"
  /\ web.timestamp = Now - MaxSkew - 1
  /\ ~SignatureMismatch
  /\ web.status = 401

\* the kinds under which fetchSummariesFromThread returns the message ts
FetchedAs(ts) ==
  { type \in SummaryTypes :
      \E y \in EdgeYears :
        \E s \in Range(fetchSummariesFromThread(thread, type, y)) : s.id = ts }

\* C25: the kind the decoder gives a posted message is the kind of the tag on
\* its first line, whatever the content: a summary whose content quotes the
\* tag of another kind is decoded as its own kind and fetchSummariesFromThread
\* never returns it for another kind.
C25_KindFromFirstLine ==
  \A k \in DOMAIN Posted :
    /\ parseSummaryType(toSlackMessage(Posted[k].arg, periodLabel)) = Posted[k].arg.type
    /\ DecodedPost(k).kind = "summary" => DecodedPost(k).summary.type = Posted[k].arg.type
    /\ FetchedAs(Posted[k].ret) \subseteq {Posted[k].arg.type}

\* C26: in a yearly invocation the weeks fetchUserPosts is called for are
\* fetched once each in chronological order, none of them lies wholly outside
\* the year, and when the week loop is over their number is 52 or 53.
C26_YearWeeksCount ==
  params.kind = YEARLY
    => LET w == WeeksFetched
           days == DaysOfYear(params.year)
       IN  /\ \A i \in DOMAIN w : i > 1 => w[i - 1] < w[i]
           /\ \A i \in DOMAIN w : \E d \in days : DayOf(w[i]) <= d /\ d <= DayOf(w[i]) + 6
           /\ WeekLoopDone => Len(w) \in {52, 53}

\* the weekly posts of the invocation that returned before call i
WeeklyPostsBefore(i) ==
  { j \in 1..(i - 1) : IsWeeklyPost(calls[j]) /\ calls[j].ok }

\* C27: a monthly invocation never returns the weekly-summary-not-found
\* failure: at its fetchSummariesFromThread every weekly summary it has just
\* posted is read back, under the year of the invocation, with the days it was
\* posted with and a period that overlaps the month, also the boundary week
\* whose Sunday is the first day of the month.
C27_PostedWeeksReadBack ==
  params.kind = MONTHLY
    => /\ result.error # "SummaryNotFoundError"
       /\ \A i \in CallIdx("fetchSummariesFromThread") :
            calls[i].ok
              => \A j \in WeeklyPostsBefore(i) :
                   \E s \in Range(calls[i].ret) :
                     /\ s.id = calls[j].ret
                     /\ s.year = params.year
                     /\ DaysOfSummary(s) = DaysOfSummary(calls[j].arg)
                     /\ overlapsWithMonth(s, params.year, params.month)

\* June 2025 with posts on Sunday June 1 only: the one weekly summary posted
\* is that of May 26 - June 1, and the monthly summary was made of it
C27_Witness ==
  /\ params.kind = MONTHLY
  /\ params.month = 6
  /\ pc = "done"
  /\ result.ok
  /\ \E i \in CallIdx("fetchSummariesFromThread") :
       /\ Cardinality(WeeklyPostsBefore(i)) = 1
       /\ \A j \in WeeklyPostsBefore(i) :
            calls[j].arg.dateRange.end = EndOfDay(DayOf(NewDate(2025, 5, 1)))
  /\ \E i \in CallIdx("generateMonthlySummary") : Len(calls[i].arg) = 1

IsStrictlyAscendingByMonth(s) == \A i, j \in DOMAIN s : i < j => s[i].month < s[j].month

\* C28: whatever monthly and yearly invocations ran on the thread before, the
\* list a yearly invocation passes to generateYearlySummary holds at most one
\* monthly summary per month: it is strictly ascending by month.
C28_YearlyOneSummaryPerMonth ==
  params.kind = YEARLY
    => \A i \in CallIdx("generateYearlySummary") : IsStrictlyAscendingByMonth(calls[i].arg)

\* C29: under every interleaving of saveToken, getToken and refreshToken for
\* one user, the token saveToken wrote last is in the store until its own
\* expiresAt (a getToken that read an older, expired token does not delete
\* it), and getToken never returns a token whose expiresAt is at or before
\* the time of the return.
C29_SavedTokenStays ==
  /\ (tok.lastSaved.exists /\ tok.now < tok.lastSaved.expiresAt)
       => tok.doc.exists /\ tok.doc.id = tok.lastSaved.id
  /\ \A i \in DOMAIN tok.returned : tok.returned[i].expiresAt > tok.returned[i].at

IsTerminalMessage(m) == m \in {"success", "failure"}

TerminalMessages == {i \in DOMAIN web.dm : IsTerminalMessage(web.dm[i])}

GenerationEnded == pc = "done" \/ web.handleThrew

\* C30: once the background task of an accepted command has posted the
\* start message, it ends with exactly one terminal message (success or
\* failure) in the self-DM unless posting to the self-DM failed; a terminal
\* message is there only after the generation has ended; and the
\* acknowledgement has been returned before the background task runs.
C30_OneTerminalMessage ==
  /\ (web.bg = "end" /\ web.dm # <<>> /\ ~web.postFailed)
       => Cardinality(TerminalMessages) = 1
  /\ Cardinality(TerminalMessages) <= 1
  /\ TerminalMessages # {} => GenerationEnded
  /\ web.bg # "none" => web.route = "responded" /\ web.response = "ack"

====
